---- MODULE Spec2Model ----
(***************************************************************************)
(* A model of i3-workspace-groups: the workspace name codec                *)
(* (workspace_names.py), the numbering functions, and the controller       *)
(* operations that rename and focus workspaces through i3                  *)
(* (controller.py, i3_proxy.py).                                           *)
(*                                                                         *)
(* A string is a sequence of one-character strings.  An Optional value is  *)
(* a sequence of length at most one: <<>> is None, <<v>> is the value v.   *)
(* A Python call that may raise returns [exc, val]: exc = "" when it       *)
(* returned val, otherwise the name of the exception it raised.            *)
(***************************************************************************)
EXTENDS Integers, Sequences, FiniteSets, TLC

VARIABLES
    fn,        \* pure-function specifications: the function under test
    arg,       \* its input
    ret,       \* its result, Pending until the function was applied
    outputs,   \* i3: per monitor, the ordered list of its workspaces' names
    focused,   \* i3: the name of the focused workspace
    config,    \* the configuration file the commands read
    last,      \* the last command: its inputs and what it sent to i3
    commands,  \* the number of commands run since i3 started
    server     \* the server command: whether its accept loop is running

vars == <<fn, arg, ret, outputs, focused, config, last, commands, server>>

None == <<>>
Some(v) == <<v>>
IsNone(o) == o = <<>>
Val(o) == o[1]

\* The sequence that a function on 1..n is, in the form of a tuple
AsSeq(f) == f \o <<>>

\* The value of an expression that is computed once: the element of the
\* singleton {e : x \in {v}} is e with x the value of v.
Once(S) == CHOOSE v \in S : TRUE

Ok(v) == [exc |-> "", val |-> v]
Raise(kind) == [exc |-> kind, val |-> <<>>]

Max(S) == CHOOSE x \in S : \A y \in S : y <= x
Min(S) == CHOOSE x \in S : \A y \in S : x <= y

(***************************************************************************)
(* Python strings and integers                                             *)
(***************************************************************************)
SECTIONS_DELIM == "ZWSP"

Digits == <<"0", "1", "2", "3", "4", "5", "6", "7", "8", "9">>
DigitSet == {Digits[i] : i \in 1..10}
DigitVal(c) == (CHOOSE i \in 1..10 : Digits[i] = c) - 1

RECURSIVE NatToStr(_)
NatToStr(n) ==
    IF n < 10 THEN <<Digits[n + 1]>>
    ELSE NatToStr(n \div 10) \o <<Digits[(n % 10) + 1]>>

\* str(n) / '{}'.format(n) of an int
IntToStr(n) == IF n < 0 THEN <<"-">> \o NatToStr(0 - n) ELSE NatToStr(n)

RECURSIVE StrToNat(_)
StrToNat(s) ==
    IF Len(s) = 0 THEN 0
    ELSE 10 * StrToNat(SubSeq(s, 1, Len(s) - 1)) + DigitVal(s[Len(s)])

\* int(s): an optional sign followed by at least one decimal digit, else
\* ValueError (over the characters of the model: no blanks, no underscores).
PyInt(s) ==
    LET signed == Len(s) > 0 /\ s[1] \in {"-", "+"}
        body == IF signed THEN Tail(s) ELSE s
    IN  IF Len(body) = 0 \/ \E i \in 1..Len(body) : body[i] \notin DigitSet
        THEN Raise("ValueError")
        ELSE Ok(IF signed /\ s[1] = "-" THEN 0 - StrToNat(body) ELSE StrToNat(body))

\* s.split(d): one pass over s from character i on; sections holds the
\* sections closed so far followed by the one being read.
RECURSIVE SplitLoop(_, _, _, _)
SplitLoop(s, d, i, sections) ==
    IF i > Len(s) THEN sections
    ELSE IF s[i] = d THEN SplitLoop(s, d, i + 1, Append(sections, <<>>))
    ELSE SplitLoop(s, d, i + 1,
                   [sections EXCEPT ![Len(sections)] = Append(@, s[i])])

Split(s, d) == SplitLoop(s, d, 1, <<<<>>>>)

\* d.join(sections)
RECURSIVE Join(_, _)
Join(sections, d) ==
    IF Len(sections) = 0 THEN <<>>
    ELSE IF Len(sections) = 1 THEN sections[1]
    ELSE sections[1] \o <<d>> \o Join(Tail(sections), d)

\* s.replace(old, new) for single characters
Replace(s, old, new) ==
    AsSeq([i \in 1..Len(s) |-> IF s[i] = old THEN new ELSE s[i]])

(***************************************************************************)
(* workspace_names.py: the name codec                                      *)
(***************************************************************************)
WORKSPACE_NAME_SECTIONS ==
    <<"global_number", "group", "static_name", "dynamic_name", "local_number">>

WorkspaceGroupingMetadata(gn, g, sn, dn, ln) ==
    [global_number |-> gn, group |-> g, static_name |-> sn,
     dynamic_name |-> dn, local_number |-> ln]

maybe_remove_prefix_colons_Keep(section) == section

maybe_remove_prefix_colons(section) ==
    IF Len(section) > 0 /\ section[1] = ":" THEN Tail(section) ELSE section

maybe_remove_suffix_colons(section) ==
    IF Len(section) > 0 /\ section[Len(section)] = ":"
    THEN SubSeq(section, 1, Len(section) - 1) ELSE section

sanitize_section_value(name) ==
    maybe_remove_prefix_colons(Replace(name, SECTIONS_DELIM, "%"))

is_valid_group_name(name) == \A i \in 1..Len(name) : name[i] # SECTIONS_DELIM

\* Returns an Optional int, or raises ValueError.
parse_global_number_section(section) ==
    IF Len(section) = 0 THEN Ok(None)
    ELSE LET r == PyInt(maybe_remove_suffix_colons(section))
         IN  IF r.exc # "" THEN r ELSE Ok(Some(r.val))

is_recognized_name_format_NoTry(workspace_name) ==
    Len(Split(workspace_name, SECTIONS_DELIM)) = Len(WORKSPACE_NAME_SECTIONS)

is_recognized_name_format(workspace_name) ==
    LET sections == Split(workspace_name, SECTIONS_DELIM)
    IN  IF Len(sections) # Len(WORKSPACE_NAME_SECTIONS) THEN FALSE
        ELSE IF Len(sections[1]) > 0
                /\ parse_global_number_section(sections[1]).exc = "ValueError"
        THEN FALSE
        ELSE TRUE

\* Returns the metadata record; an exception of a callee it does not catch
\* is passed on.
parse_name(workspace_name) ==
    LET sections == Split(workspace_name, SECTIONS_DELIM)
    IN  IF ~is_recognized_name_format(workspace_name)
        THEN Ok(WorkspaceGroupingMetadata(None, Some(<<>>),
                    Some(sanitize_section_value(workspace_name)), None, None))
        ELSE LET gn == parse_global_number_section(sections[1])
                 group == IF Len(sections[2]) > 0
                          THEN maybe_remove_suffix_colons(sections[2])
                          ELSE <<>>
                 \* try: int(...) except ValueError: pass
                 ln == PyInt(maybe_remove_prefix_colons(sections[5]))
                 local_number == IF Len(sections[5]) = 0 THEN None
                                 ELSE IF ln.exc = "ValueError" THEN None
                                 ELSE Some(ln.val)
             IN  IF gn.exc # "" THEN gn
                 ELSE Ok(WorkspaceGroupingMetadata(
                        gn.val, Some(group),
                        Some(maybe_remove_prefix_colons(sections[3])),
                        Some(maybe_remove_prefix_colons(sections[4])),
                        local_number))

\* Python truthiness of an Optional[str] and of an Optional[int] field
TruthyStr(o) == ~IsNone(o) /\ Val(o) # <<>>
TruthyInt(o) == ~IsNone(o) /\ Val(o) # 0

\* One step of create_name's loop: st = [sections, need_prefix_colons];
\* truthy is bool(value) and text is str(value) of the field.
CreateNameStep(st, truthy, text) ==
    IF ~truthy THEN [st EXCEPT !.sections = Append(@, <<>>)]
    ELSE IF st.need_prefix_colons
    THEN [st EXCEPT !.sections = Append(@, <<":">> \o text)]
    ELSE [sections |-> Append(st.sections, text), need_prefix_colons |-> TRUE]

create_name(ws_metadata) ==
    IF IsNone(ws_metadata.global_number) \/ IsNone(ws_metadata.group)
    THEN Raise("AssertionError")
    ELSE LET s0 == [sections |-> <<IntToStr(Val(ws_metadata.global_number)) \o <<":">>,
                                   Val(ws_metadata.group)>>,
                    need_prefix_colons |-> Len(Val(ws_metadata.group)) > 0]
             s1 == CreateNameStep(s0, TruthyStr(ws_metadata.static_name),
                       IF IsNone(ws_metadata.static_name) THEN <<>>
                       ELSE Val(ws_metadata.static_name))
             s2 == CreateNameStep(s1, TruthyStr(ws_metadata.dynamic_name),
                       IF IsNone(ws_metadata.dynamic_name) THEN <<>>
                       ELSE Val(ws_metadata.dynamic_name))
             s3 == CreateNameStep(s2, TruthyInt(ws_metadata.local_number),
                       IF IsNone(ws_metadata.local_number) THEN <<>>
                       ELSE IntToStr(Val(ws_metadata.local_number)))
         IN  Ok(Join(s3.sections, SECTIONS_DELIM))

(***************************************************************************)
(* workspace_names.py: numbering                                           *)
(***************************************************************************)
MAX_GROUPS_PER_MONITOR == 1000
MAX_WORKSPACES_PER_GROUP == 100

compute_global_number_NoMonitor(monitor_index, group_index, local_number) ==
    IF ~(local_number < MAX_WORKSPACES_PER_GROUP) THEN Raise("AssertionError")
    ELSE Ok(MAX_WORKSPACES_PER_GROUP * group_index + local_number)

compute_global_number(monitor_index, group_index, local_number) ==
    IF ~(local_number < MAX_WORKSPACES_PER_GROUP) THEN Raise("AssertionError")
    ELSE LET monitor_starting_number ==
                 monitor_index * (MAX_GROUPS_PER_MONITOR * MAX_WORKSPACES_PER_GROUP)
             group_starting_number == MAX_WORKSPACES_PER_GROUP * group_index
         IN  Ok(monitor_starting_number + group_starting_number + local_number)

\* Python's % and // round towards minus infinity, as TLA+'s % and \div do.
global_number_to_group_index(global_number) ==
    (global_number % (MAX_GROUPS_PER_MONITOR * MAX_WORKSPACES_PER_GROUP))
        \div MAX_WORKSPACES_PER_GROUP

global_number_to_local_number(global_number) ==
    global_number % MAX_WORKSPACES_PER_GROUP

\* One iteration of the loop of get_lowest_free_local_numbers; after the
\* break no later iteration runs.
LowestFreeStep(local_number, num, used_local_numbers, local_numbers) ==
    IF Len(local_numbers) = num THEN local_numbers
    ELSE IF local_number \in used_local_numbers THEN local_numbers
    ELSE Append(local_numbers, local_number)

\* The iterations lo..hi of the loop, in order.  The range is split in
\* halves, and the first half is evaluated (its length taken) before the
\* second half starts, to keep TLC's evaluation shallow.
RECURSIVE LowestFreeLoop(_, _, _, _, _)
LowestFreeLoop(lo, hi, num, used_local_numbers, local_numbers) ==
    IF lo > hi THEN local_numbers
    ELSE IF lo = hi
    THEN LowestFreeStep(lo, num, used_local_numbers, local_numbers)
    ELSE LET mid == (lo + hi) \div 2
             first == LowestFreeLoop(lo, mid, num, used_local_numbers,
                                     local_numbers)
         IN  IF Len(first) = num THEN first
             ELSE LowestFreeLoop(mid + 1, hi, num, used_local_numbers, first)

get_lowest_free_local_numbers_FromZero(num, used_local_numbers) ==
    LET local_numbers == LowestFreeLoop(0, MAX_WORKSPACES_PER_GROUP - 1, num,
                                        used_local_numbers, <<>>)
    IN  IF Len(local_numbers) # num THEN Raise("AssertionError")
        ELSE Ok(local_numbers)

get_lowest_free_local_numbers(num, used_local_numbers) ==
    LET local_numbers == LowestFreeLoop(1, MAX_WORKSPACES_PER_GROUP - 1, num,
                                        used_local_numbers, <<>>)
    IN  IF Len(local_numbers) # num THEN Raise("AssertionError")
        ELSE Ok(local_numbers)

NumMonitors == 2
MaxWorkspaces == 4

\* Names the user gives to workspaces with i3's own commands
LegacyNames == {<<"x">>}

\* Group names given to switch-active-group
GroupNames == {<<>>, <<"a">>}

\* The local numbers the commands may reach: a command that would name a
\* workspace with a larger one is not run.
MaxLocal == 2

\* The names the controller specification gives to workspaces, and parse_name
\* of each, evaluated once
StaticNames == {<<>>} \cup LegacyNames \cup {IntToStr(m) : m \in 1..NumMonitors}

ToolNames ==
    {create_name(WorkspaceGroupingMetadata(
         Some(compute_global_number(mi, gi, ln).val), Some(g), Some(sn),
         Some(<<>>), Some(ln))).val :
        mi \in 0..(NumMonitors - 1), gi \in 0..MaxWorkspaces, g \in GroupNames,
        sn \in StaticNames, ln \in 1..(MaxLocal + 1)}

ParsedNames == [name \in ToolNames \cup StaticNames |-> parse_name(name).val]

\* parse_name(name) where the callers use its result directly
Parsed(name) ==
    IF name \in DOMAIN ParsedNames THEN ParsedNames[name]
    ELSE parse_name(name).val

\* A workspace container as the code reads it: its id and its name.
Con(id, name) == [id |-> id, name |-> name]

get_local_workspace_number(workspace) ==
    LET ws_metadata == Parsed(workspace.name)
    IN  IF IsNone(ws_metadata.local_number) /\ ~IsNone(ws_metadata.global_number)
        THEN Some(global_number_to_local_number(Val(ws_metadata.global_number)))
        ELSE ws_metadata.local_number

get_group(workspace) == Val(Parsed(workspace.name).group)

get_used_local_numbers(workspaces) ==
    LET local_numbers ==
            {Parsed(workspaces[i].name).local_number : i \in 1..Len(workspaces)}
    IN  {Val(local_number) : local_number \in local_numbers \ {None}}

\* The preserve-mode loop of compute_local_numbers from workspace i on;
\* used is used_local_numbers, last is last_used_local_number.
RECURSIVE PreserveLoop(_, _, _, _, _)
PreserveLoop(monitor_workspaces, i, used, last_used, local_numbers) ==
    IF i > Len(monitor_workspaces) THEN local_numbers
    ELSE LET local_number == Parsed(monitor_workspaces[i].name).local_number
         IN  IF IsNone(local_number) \/ Val(local_number) \in used
             THEN PreserveLoop(monitor_workspaces, i + 1, used, last_used + 1,
                               Append(local_numbers, last_used + 1))
             ELSE PreserveLoop(monitor_workspaces, i + 1, used, last_used,
                               Append(local_numbers, Val(local_number)))

compute_local_numbers_CountOwn(monitor_workspaces, all_workspaces, renumber_workspaces) ==
    LET used_local_numbers == get_used_local_numbers(all_workspaces)
    IN  IF renumber_workspaces
        THEN get_lowest_free_local_numbers(Len(monitor_workspaces),
                                           used_local_numbers)
        ELSE Ok(PreserveLoop(monitor_workspaces, 1, used_local_numbers,
                             IF used_local_numbers # {}
                             THEN Max(used_local_numbers) ELSE 0, <<>>))

compute_local_numbers(monitor_workspaces, all_workspaces, renumber_workspaces) ==
    LET monitor_workspace_ids ==
            {monitor_workspaces[i].id : i \in 1..Len(monitor_workspaces)}
        NotOnMonitor(ws) == ws.id \notin monitor_workspace_ids
        other_monitors_workspaces == SelectSeq(all_workspaces, NotOnMonitor)
    IN  Once({IF renumber_workspaces
              THEN get_lowest_free_local_numbers(Len(monitor_workspaces),
                                                 used_local_numbers)
              ELSE Ok(PreserveLoop(monitor_workspaces, 1, used_local_numbers,
                                   IF used_local_numbers # {}
                                   THEN Max(used_local_numbers) ELSE 0, <<>>)) :
                 used_local_numbers \in
                     {get_used_local_numbers(other_monitors_workspaces)}})

\* collections.OrderedDict of group -> workspaces, as the sequence of its
\* items [group, workspaces] in insertion order.
GroupKeys(group_to_workspaces) ==
    {group_to_workspaces[i].group : i \in 1..Len(group_to_workspaces)}

\* group_to_workspaces.get(group, [])
GroupGet(group_to_workspaces, group) ==
    IF group \in GroupKeys(group_to_workspaces)
    THEN group_to_workspaces[CHOOSE i \in 1..Len(group_to_workspaces) :
                                 group_to_workspaces[i].group = group].workspaces
    ELSE <<>>

\* One iteration of the loop of get_group_to_workspaces
AddToGroup(group_to_workspaces, workspace) ==
    LET group == get_group(workspace)
    IN  IF group \in GroupKeys(group_to_workspaces)
        THEN AsSeq([i \in 1..Len(group_to_workspaces) |->
                       IF group_to_workspaces[i].group = group
                       THEN [group_to_workspaces[i] EXCEPT
                                !.workspaces = Append(@, workspace)]
                       ELSE group_to_workspaces[i]])
        ELSE Append(group_to_workspaces,
                    [group |-> group, workspaces |-> <<workspace>>])

RECURSIVE GroupLoop(_, _, _)
GroupLoop(workspaces, i, group_to_workspaces) ==
    IF i > Len(workspaces) THEN group_to_workspaces
    ELSE Once({GroupLoop(workspaces, i + 1, next) :
                  next \in {AddToGroup(group_to_workspaces, workspaces[i])}})

get_group_to_workspaces(workspaces) ==
    Once({GroupLoop(cons, 1, <<>>) : cons \in {workspaces}})

\* get_group_index of the monolith, which gives a new group the largest
\* index in use
get_group_index_Max(target_group, group_to_workspaces) ==
    LET WithNumber(k) ==
            {i \in 1..Len(group_to_workspaces[k].workspaces) :
                ~IsNone(Parsed(group_to_workspaces[k].workspaces[i].name)
                            .global_number)}
        indexed == {k \in 1..Len(group_to_workspaces) : WithNumber(k) # {}}
        IndexOf(k) == global_number_to_group_index(Val(Parsed(
                          group_to_workspaces[k].workspaces[Min(WithNumber(k))]
                              .name).global_number))
    IN  IF \E k \in indexed : group_to_workspaces[k].group = target_group
        THEN IndexOf(CHOOSE k \in indexed :
                         group_to_workspaces[k].group = target_group)
        ELSE IF indexed # {} THEN Max({IndexOf(k) : k \in indexed})
        ELSE 0

get_group_index(target_group, group_to_workspaces) ==
    LET WithNumber(k) ==
            {i \in 1..Len(group_to_workspaces[k].workspaces) :
                ~IsNone(Parsed(group_to_workspaces[k].workspaces[i].name)
                            .global_number)}
        indexed == {k \in 1..Len(group_to_workspaces) : WithNumber(k) # {}}
        IndexOf(k) == global_number_to_group_index(Val(Parsed(
                          group_to_workspaces[k].workspaces[Min(WithNumber(k))]
                              .name).global_number))
    IN  IF \E k \in indexed : group_to_workspaces[k].group = target_group
        THEN IndexOf(CHOOSE k \in indexed :
                         group_to_workspaces[k].group = target_group)
        ELSE IF indexed # {} THEN Max({IndexOf(k) : k \in indexed}) + 1
        ELSE 0

(***************************************************************************)
(* i3 as the proxy sees it.  A tree is, per monitor, the ordered list of   *)
(* its workspaces; the monitors are named 1, 2, .. in the order of         *)
(* get_monitor_index (top to bottom, left to right), which is also the     *)
(* order of the outputs in the tree.                                       *)
(***************************************************************************)

Monitors == 1..NumMonitors

get_monitor_index(monitor_name) == monitor_name - 1

RECURSIVE TreeWorkspaces(_, _)
TreeWorkspaces(tree, m) ==
    IF m > NumMonitors THEN <<>> ELSE tree[m] \o TreeWorkspaces(tree, m + 1)

\* tree.workspaces(): the workspaces of all monitors, in tree order
workspaces(tree) == TreeWorkspaces(tree, 1)

Ids(tree) == UNION {{tree[m][i].id : i \in 1..Len(tree[m])} : m \in Monitors}

Names(tree) ==
    UNION {{tree[m][i].name : i \in 1..Len(tree[m])} : m \in Monitors}

\* get_tree(): the containers of the workspaces i3 holds.  i3 keeps the
\* names of its workspaces distinct; a container has an id as well.
GetTree(names) ==
    LET Before(m) == Len(TreeWorkspaces(names, 1)) - Len(TreeWorkspaces(names, m))
    IN  AsSeq([m \in Monitors |->
            AsSeq([i \in 1..Len(names[m]) |-> Con(Before(m) + i, names[m][i])])])

TreeNames(tree) ==
    AsSeq([m \in Monitors |->
              AsSeq([i \in 1..Len(tree[m]) |-> tree[m][i].name])])

MonitorOf(tree, id) ==
    CHOOSE m \in Monitors : \E i \in 1..Len(tree[m]) : tree[m][i].id = id

NameOf(tree, id) ==
    LET m == MonitorOf(tree, id)
    IN  tree[m][CHOOSE i \in 1..Len(tree[m]) : tree[m][i].id = id].name

IdOf(tree, name) ==
    LET all == workspaces(tree)
    IN  all[CHOOSE i \in 1..Len(all) : all[i].name = name].id

\* workspace.name = new_name on a container of the cached tree
SetName(tree, id, new_name) ==
    AsSeq([m \in Monitors |->
        AsSeq([i \in 1..Len(tree[m]) |->
                  IF tree[m][i].id = id THEN Con(id, new_name) ELSE tree[m][i]])])

\* A list of containers of the cached tree, read now: the containers are
\* shared, so a name assigned since the list was built is seen.
Refresh(tree, cons) ==
    AsSeq([i \in 1..Len(cons) |-> Con(cons[i].id, NameOf(tree, cons[i].id))])

\* i3's workspace number: the leading decimal digits of the name, else -1
RECURSIVE DigitPrefix(_)
DigitPrefix(name) ==
    IF Len(name) = 0 \/ name[1] \notin DigitSet THEN <<>>
    ELSE <<name[1]>> \o DigitPrefix(Tail(name))

I3Num(name) ==
    IF Len(DigitPrefix(name)) = 0 THEN -1 ELSE StrToNat(DigitPrefix(name))

\* i3 attaches a workspace to its output sorted by number: an unnumbered
\* one at the end, a numbered one before the first workspace that is
\* unnumbered or has a number not below its own.
I3Attach(cons, con) ==
    Once({IF num = -1 \/ later = {} THEN Append(cons, con)
          ELSE SubSeq(cons, 1, Min(later) - 1) \o <<con>>
                   \o SubSeq(cons, Min(later), Len(cons)) :
             num \in {I3Num(con.name)},
             later \in {{i \in 1..Len(cons) :
                            I3Num(cons[i].name) = -1
                            \/ I3Num(cons[i].name) >= I3Num(con.name)}}})

I3Detach(cons, id) ==
    LET Other(con) == con.id # id
    IN  SelectSeq(cons, Other)

\* i3's "rename workspace old to new" succeeds when a workspace is named
\* old and no other workspace is named new; the workspace is re-attached.
I3RenameOk(tree, old_name, new_name) ==
    old_name \in Names(tree) /\ new_name \notin Names(tree)

I3Rename(tree, old_name, new_name) ==
    IF ~I3RenameOk(tree, old_name, new_name) THEN tree
    ELSE Once({[tree EXCEPT ![MonitorOf(tree, id)] =
                   I3Attach(I3Detach(@, id), Con(id, new_name))] :
                  id \in {IdOf(tree, old_name)}})

FreshId(tree) == Max(Ids(tree)) + 1

\* The workspaces i3 may destroy when the workspace shown on monitor m is
\* replaced by shown: the one that was visible there, if it is empty.  The
\* focused workspace is the visible one of its monitor; which workspace is
\* visible on another monitor, and which are empty, is not in the tree the
\* proxy reads.
I3Hidden(tree, focus, m, shown) ==
    IF MonitorOf(tree, focus) = m THEN {focus} \ {shown}
    ELSE {tree[m][i].id : i \in 1..Len(tree[m])} \ {shown}

\* i3's "workspace name": focus the workspace of that name, creating it on
\* the focused monitor when there is none.  The set of possible outcomes.
I3Workspace(tree, focus, name) ==
    LET exists == name \in Names(tree)
    IN  UNION {{[outputs |-> shown, focused |-> id]}
               \cup {[outputs |-> [shown EXCEPT ![m] = I3Detach(@, gone)],
                      focused |-> id] : gone \in I3Hidden(tree, focus, m, id)} :
                  m \in {IF exists THEN MonitorOf(tree, IdOf(tree, name))
                         ELSE MonitorOf(tree, focus)},
                  id \in {IF exists THEN IdOf(tree, name) ELSE FreshId(tree)},
                  shown \in {IF exists THEN tree
                             ELSE [tree EXCEPT
                                      ![MonitorOf(tree, focus)] =
                                          I3Attach(@, Con(FreshId(tree), name))]}}


(***************************************************************************)
(* i3_proxy.py and controller.py.  A command runs on a state st:           *)
(*   i3     the tree of i3, changed by the commands sent;                  *)
(*   tree   the tree cached by get_tree, whose names the controller        *)
(*          assigns as it renames;                                         *)
(*   sent   the rename commands sent: the workspace named, i3's reply;     *)
(*   passes the organize passes run: monitor, ordered groups, workspaces;  *)
(*   exc    the exception that ended the command, "" if none.              *)
(***************************************************************************)
StartCommand(tree) ==
    [i3 |-> tree, tree |-> tree, sent |-> <<>>, passes |-> <<>>, exc |-> ""]

\* The workspace a rename command names: its id, 0 if no workspace has
\* that name.
NamedBy(tree, name) == IF name \in Names(tree) THEN IdOf(tree, name) ELSE 0

\* rename_workspace without its first two lines
rename_workspace_Always(st, old_name, new_name) ==
    [st EXCEPT
        !.i3 = I3Rename(@, old_name, new_name),
        !.sent = Append(@, [id |-> NamedBy(st.i3, old_name),
                            success |-> I3RenameOk(st.i3, old_name, new_name),
                            old_name |-> old_name,
                            new_name |-> new_name,
                            names |-> Names(st.i3)])]

rename_workspace(st, old_name, new_name) ==
    IF old_name = new_name THEN st
    ELSE [st EXCEPT
             !.i3 = I3Rename(@, old_name, new_name),
             !.sent = Append(@, [id |-> NamedBy(st.i3, old_name),
                                 success |-> I3RenameOk(st.i3, old_name,
                                                        new_name),
                                 old_name |-> old_name,
                                 new_name |-> new_name,
                                 names |-> Names(st.i3)])]

\* The body of the inner loop of organize_workspace_groups (icons disabled)
OrganizeWorkspace(st, id, group, group_index, local_number, monitor_index) ==
    Once({IF global_number.exc # "" THEN [st EXCEPT !.exc = global_number.exc]
          ELSE Once({[rename_workspace(st, old_name, new_name) EXCEPT
                         !.tree = SetName(@, id, new_name)] :
                        new_name \in
                            {create_name([ws_metadata EXCEPT
                                 !.group = Some(group),
                                 !.local_number = Some(local_number),
                                 !.global_number = Some(global_number.val),
                                 !.dynamic_name = Some(<<>>)]).val}}) :
             old_name \in {NameOf(st.tree, id)},
             ws_metadata \in {Parsed(NameOf(st.tree, id))},
             global_number \in {compute_global_number(monitor_index, group_index,
                                                      local_number)}})

\* for workspace, local_number in zip(workspaces, local_numbers), from i
RECURSIVE OrganizeWorkspaces(_, _, _, _, _, _, _)
OrganizeWorkspaces(st, cons, local_numbers, i, group, group_index, monitor_index) ==
    IF st.exc # "" \/ i > Len(cons) \/ i > Len(local_numbers) THEN st
    ELSE Once({OrganizeWorkspaces(next, cons, local_numbers, i + 1, group,
                                  group_index, monitor_index) :
                  next \in {OrganizeWorkspace(st, cons[i].id, group, group_index,
                                              local_numbers[i], monitor_index)}})

\* for group_index, (group, workspaces) in enumerate(workspace_groups),
\* from the k-th group on
RECURSIVE OrganizeGroups(_, _, _, _, _, _)
OrganizeGroups(st, workspace_groups, k, group_to_all_workspaces, monitor_index, renumber) ==
    IF st.exc # "" \/ k > Len(workspace_groups) THEN st
    ELSE LET group == workspace_groups[k].group
             cons == workspace_groups[k].workspaces
         IN  Once({IF local_numbers.exc # ""
                   THEN [st EXCEPT !.exc = local_numbers.exc]
                   ELSE Once({OrganizeGroups(next, workspace_groups, k + 1,
                                             group_to_all_workspaces,
                                             monitor_index, renumber) :
                                 next \in {OrganizeWorkspaces(
                                              st, cons, local_numbers.val, 1,
                                              group, k - 1, monitor_index)}}) :
                      local_numbers \in
                          {Once({compute_local_numbers(monitor_workspaces,
                                                       all_workspaces, renumber) :
                                    monitor_workspaces \in
                                        {Refresh(st.tree, cons)},
                                    all_workspaces \in
                                        {Refresh(st.tree,
                                                 GroupGet(group_to_all_workspaces,
                                                          group))}})}})

\* The record of a pass: the monitor, and per group of the ordered
\* sequence its name and the ids of its workspaces.
PassOf(workspace_groups, monitor_name) ==
    [monitor |-> monitor_name,
     groups |-> AsSeq([k \in 1..Len(workspace_groups) |->
                    [group |-> workspace_groups[k].group,
                     ids |-> {workspace_groups[k].workspaces[i].id :
                                 i \in 1..Len(workspace_groups[k].workspaces)}]])]

organize_workspace_groups(st, workspace_groups, monitor_name, renumber) ==
    Once({[OrganizeGroups(st, workspace_groups, 1, group_to_all_workspaces,
                          get_monitor_index(monitor_name), renumber)
              EXCEPT !.passes = Append(@, PassOf(workspace_groups, monitor_name))] :
             group_to_all_workspaces \in
                 {get_group_to_workspaces(workspaces(st.tree))}})

_find_free_local_number(tree, target_group) ==
    Once({Once({IF free.exc # "" THEN free ELSE Ok(free.val[1]) :
                   free \in {get_lowest_free_local_numbers(
                                1, used_local_numbers)}}) :
             used_local_numbers \in
                 {get_used_local_numbers(
                      GroupGet(get_group_to_workspaces(workspaces(tree)),
                               target_group))}})

_create_new_active_group_workspace_name(tree, monitor_name, target_group) ==
    Once({IF local_number.exc # "" THEN local_number
          ELSE Once({IF global_number.exc # "" THEN global_number
                     ELSE create_name(WorkspaceGroupingMetadata(
                              Some(global_number.val), Some(target_group), None,
                              None, Some(local_number.val))) :
                        global_number \in
                            {compute_global_number(get_monitor_index(monitor_name),
                                                   0, local_number.val)}}) :
             local_number \in {_find_free_local_number(tree, target_group)}})

\* The ordered groups switch_monitor_active_group organizes
ReorderedGroups(monitor_workspaces, target_group) ==
    LET NotTarget(item) == item.group # target_group
    IN  Once({<<[group |-> target_group,
                 workspaces |-> GroupGet(group_to_monitor_workspaces,
                                         target_group)]>>
                  \o SelectSeq(group_to_monitor_workspaces, NotTarget) :
                 group_to_monitor_workspaces \in
                     {get_group_to_workspaces(monitor_workspaces)}})

switch_monitor_active_group(st, monitor_name, target_group, renumber) ==
    Once({organize_workspace_groups(st, reordered_group_to_workspaces,
                                    monitor_name, renumber) :
             reordered_group_to_workspaces \in
                 {ReorderedGroups(st.tree[monitor_name], target_group)}})

\* The loop of switch_active_group over monitor_to_workspaces, from m on
RECURSIVE SwitchMonitors(_, _, _, _, _, _)
SwitchMonitors(st, m, focused_monitor_name, target_group, focused_monitor_only, renumber) ==
    IF st.exc # "" \/ m > NumMonitors THEN st
    ELSE LET group_exists ==
                 target_group \in GroupKeys(get_group_to_workspaces(st.tree[m]))
         IN  IF m = focused_monitor_name
                \/ (~focused_monitor_only /\ group_exists)
             THEN Once({SwitchMonitors(next, m + 1, focused_monitor_name,
                                       target_group, focused_monitor_only,
                                       renumber) :
                           next \in {switch_monitor_active_group(
                                        st, m, target_group, renumber)}})
             ELSE SwitchMonitors(st, m + 1, focused_monitor_name, target_group,
                                 focused_monitor_only, renumber)

\* switch_active_group without the test of the focused group
SwitchFocusName_Always(tree, focus, focused_monitor_name, target_group) ==
    Once({IF target_group \in GroupKeys(group_to_monitor_workspaces)
          THEN Ok(Some(GroupGet(group_to_monitor_workspaces,
                                target_group)[1].name))
          ELSE _create_new_active_group_workspace_name(
                   tree, focused_monitor_name, target_group) :
             group_to_monitor_workspaces \in
                 {get_group_to_workspaces(tree[focused_monitor_name])}})


\* The end of switch_active_group: the name of the workspace to focus,
\* None when the focused workspace is in the target group already.
SwitchFocusName(tree, focus, focused_monitor_name, target_group) ==
    LET focused_group == get_group(Con(focus, NameOf(tree, focus)))
    IN  IF focused_group = target_group THEN Ok(None)
        ELSE Once({IF target_group \in GroupKeys(group_to_monitor_workspaces)
                   THEN Ok(Some(GroupGet(group_to_monitor_workspaces,
                                         target_group)[1].name))
                   ELSE Once({IF workspace_name.exc # "" THEN workspace_name
                              ELSE Ok(Some(workspace_name.val)) :
                                 workspace_name \in
                                     {_create_new_active_group_workspace_name(
                                          tree, focused_monitor_name,
                                          target_group)}}) :
                      group_to_monitor_workspaces \in
                          {get_group_to_workspaces(tree[focused_monitor_name])}})


(***************************************************************************)
(* Specifications of the pure functions: Init draws the input, one action  *)
(* per function applies it.                                                *)
(***************************************************************************)
Pending == [exc |-> "pending", val |-> <<>>]

\* The server command is not running: the commands are run one by one
\* from the command line (main).
NoServer == server = <<>>

\* The controller's variables are not used by these specifications.
NoController ==
    /\ outputs = <<>> /\ focused = 0 /\ config = <<>> /\ last = <<>>
    /\ commands = 0
    /\ NoServer

Seqs(S, n) == UNION {[1..k -> S] : k \in 0..n}

MaxFieldLen == 2
MaxNameLen == 6
FieldChars == {":", "a"}
NameChars == {"1", ":", "a", SECTIONS_DELIM}
GlobalNumbers == {-1, 0, 1, 100101}
LocalNumbers == {-1, 0, 1, 12}

FieldStrings == Seqs(FieldChars, MaxFieldLen)

NameInputs == Seqs(NameChars, MaxNameLen)

InitCodec ==
    /\ \/ /\ fn = "round_trip"
          /\ \E gn \in GlobalNumbers, g \in FieldStrings, sn \in FieldStrings,
                dn \in FieldStrings,
                ln \in {None} \cup {Some(n) : n \in LocalNumbers} :
                 arg = WorkspaceGroupingMetadata(Some(gn), Some(g), Some(sn),
                                                 Some(dn), ln)
       \/ fn = "parse_name" /\ arg \in NameInputs
    /\ ret = Pending
    /\ NoController

\* parse_name(create_name(m))
RoundTrip ==
    /\ fn = "round_trip" /\ ret = Pending
    /\ ret' = LET name == create_name(arg)
              IN  IF name.exc # "" THEN name ELSE parse_name(name.val)
    /\ UNCHANGED <<fn, arg, outputs, focused, config, last, commands,
                 server>>

ParseName ==
    /\ fn = "parse_name" /\ ret = Pending
    /\ ret' = parse_name(arg)
    /\ UNCHANGED <<fn, arg, outputs, focused, config, last, commands,
                 server>>

NextCodec == RoundTrip \/ ParseName

SpecCodec == InitCodec /\ [][NextCodec]_vars

HasDelim(str) == \E i \in 1..Len(str) : str[i] = SECTIONS_DELIM

\* The inputs of C1: global_number set, the three strings free of the
\* delimiter.
RoundTripInput(m) ==
    /\ ~IsNone(m.global_number)
    /\ ~HasDelim(Val(m.group))
    /\ ~HasDelim(Val(m.static_name))
    /\ ~HasDelim(Val(m.dynamic_name))

\* The header comment of workspace_names.py: sections should not have colons
\* at their beginning or end; and a local number of 0 is written as no
\* local number.
ColonFree(m) ==
    /\ Val(m.group) = maybe_remove_suffix_colons(Val(m.group))
    /\ Val(m.static_name) = maybe_remove_prefix_colons(Val(m.static_name))
    /\ Val(m.dynamic_name) = maybe_remove_prefix_colons(Val(m.dynamic_name))
    /\ m.local_number # Some(0)

IsMetadata(m) ==
    /\ DOMAIN m = {"global_number", "group", "static_name", "dynamic_name",
                   "local_number"}
    /\ Len(m.global_number) <= 1 /\ Len(m.local_number) <= 1
    /\ Len(m.group) = 1 /\ Len(m.static_name) = 1 /\ Len(m.dynamic_name) <= 1

\* C2: parse_name returns a metadata record and never raises, for any input
\* string: the empty string, fewer or more than four delimiters, a
\* non-numeric first section, a non-numeric last section.
C2_ParseNameTotal ==
    (fn = "parse_name" /\ ret # Pending)
        => (ret.exc = "" /\ IsMetadata(ret.val))

\* Five sections, the first of them not a number: the fallback is taken.
C2_Witness ==
    /\ fn = "parse_name" /\ ret # Pending
    /\ Len(Split(arg, SECTIONS_DELIM)) = 5
    /\ Split(arg, SECTIONS_DELIM)[1] = <<"a", ":">>
    /\ ret.exc = "" /\ ret.val.static_name = Some(<<"a", ":", "%", "%", "%", "%">>)

(***************************************************************************)
(* compute_global_number and get_lowest_free_local_numbers                 *)
(***************************************************************************)
MaxMonitorIndex == 1
MaxGroupIndexSample == 1
MaxCount == 3
MaxUsedSample == 4

\* Group indices at both ends of 0 .. MAX_GROUPS_PER_MONITOR - 1
GroupIndexSamples ==
    (0..MaxGroupIndexSample)
        \cup ((MAX_GROUPS_PER_MONITOR - 1 - MaxGroupIndexSample)
                  ..(MAX_GROUPS_PER_MONITOR - 1))

GlobalNumberInputs ==
    [monitor_index : 0..MaxMonitorIndex, group_index : GroupIndexSamples,
     local_number : 0..(MAX_WORKSPACES_PER_GROUP - 1)]

\* Sets of used local numbers: a few small numbers, on top of a block 1..fill
\* that is empty or leaves at most MaxCount numbers free.
UsedSamples ==
    {(1..fill) \cup extra :
        fill \in {0} \cup ((MAX_WORKSPACES_PER_GROUP - 1 - MaxCount)
                              ..(MAX_WORKSPACES_PER_GROUP - 1)),
        extra \in SUBSET (0..MaxUsedSample)}

LowestFreeInputs == [num : 0..MaxCount, used_local_numbers : UsedSamples]

InitNumber ==
    /\ \/ fn = "compute_global_number" /\ arg \in GlobalNumberInputs
       \/ fn = "get_lowest_free_local_numbers" /\ arg \in LowestFreeInputs
    /\ ret = Pending
    /\ NoController

ComputeGlobalNumber ==
    /\ fn = "compute_global_number" /\ ret = Pending
    /\ ret' = compute_global_number(arg.monitor_index, arg.group_index,
                                    arg.local_number)
    /\ UNCHANGED <<fn, arg, outputs, focused, config, last, commands,
                 server>>

GetLowestFreeLocalNumbers ==
    /\ fn = "get_lowest_free_local_numbers" /\ ret = Pending
    /\ ret' = get_lowest_free_local_numbers(arg.num, arg.used_local_numbers)
    /\ UNCHANGED <<fn, arg, outputs, focused, config, last, commands,
                 server>>

NextNumber == ComputeGlobalNumber \/ GetLowestFreeLocalNumbers

SpecNumber == InitNumber /\ [][NextNumber]_vars

\* C3: compute_global_number is injective over monitor_index >= 0,
\* 0 <= group_index < 1000, 0 <= local_number < 100, the two inverse
\* functions return group_index and local_number from its result, and
\* (0,0,1) -> 1, (0,1,1) -> 101, (1,1,1) -> 100101.
C3_GlobalNumber ==
    (fn = "compute_global_number" /\ ret # Pending)
        => /\ ret.exc = ""
           /\ global_number_to_group_index(ret.val) = arg.group_index
           /\ global_number_to_local_number(ret.val) = arg.local_number
           /\ \A other \in GlobalNumberInputs :
                  compute_global_number(other.monitor_index, other.group_index,
                                        other.local_number).val = ret.val
                      => other = arg
           /\ (arg = [monitor_index |-> 0, group_index |-> 0, local_number |-> 1]
                  => ret.val = 1)
           /\ (arg = [monitor_index |-> 0, group_index |-> 1, local_number |-> 1]
                  => ret.val = 101)
           /\ (arg = [monitor_index |-> 1, group_index |-> 1, local_number |-> 1]
                  => ret.val = 100101)

\* The largest group index and local number on a monitor other than the first
C3_Witness ==
    /\ fn = "compute_global_number" /\ ret # Pending
    /\ arg.monitor_index = 1
    /\ arg.group_index = MAX_GROUPS_PER_MONITOR - 1
    /\ arg.local_number = MAX_WORKSPACES_PER_GROUP - 1
    /\ ret.val = 199999

FreeNumbers(used) == (1..(MAX_WORKSPACES_PER_GROUP - 1)) \ used

\* C4: when count free numbers exist below MAX_WORKSPACES_PER_GROUP,
\* get_lowest_free_local_numbers(count, used) returns exactly count integers,
\* strictly ascending, none in used: the count smallest integers >= 1 not in
\* used; (1,{1,2,3}) -> [4] and (2,{2}) -> [1,3].
C4_LowestFree ==
    (/\ fn = "get_lowest_free_local_numbers" /\ ret # Pending
     /\ Cardinality(FreeNumbers(arg.used_local_numbers)) >= arg.num)
        => /\ ret.exc = ""
           /\ Len(ret.val) = arg.num
           /\ \A i \in 1..Len(ret.val) :
                  /\ ret.val[i] >= 1
                  /\ ret.val[i] \notin arg.used_local_numbers
                  /\ i > 1 => ret.val[i - 1] < ret.val[i]
                  \* every smaller free number is returned before it
                  /\ Cardinality({n \in FreeNumbers(arg.used_local_numbers) :
                                     n < ret.val[i]}) = i - 1
           /\ (arg = [num |-> 1, used_local_numbers |-> {1, 2, 3}]
                  => ret.val = <<4>>)
           /\ (arg = [num |-> 2, used_local_numbers |-> {2}]
                  => ret.val = <<1, 3>>)

\* The last two free numbers, after a gap in the used numbers
C4_Witness ==
    /\ fn = "get_lowest_free_local_numbers" /\ ret # Pending
    /\ arg.num = 2
    /\ arg.used_local_numbers = 1..(MAX_WORKSPACES_PER_GROUP - 3)
    /\ ret.val = <<MAX_WORKSPACES_PER_GROUP - 2, MAX_WORKSPACES_PER_GROUP - 1>>

(***************************************************************************)
(* compute_local_numbers                                                   *)
(***************************************************************************)
MaxMonitorWorkspaces == 3
MaxLocalNumber == 2

\* The workspaces of one group "a": those of the target monitor, given by
\* their local numbers (None: a name without one), and those of the other
\* monitors, given by the set of their local numbers.
GroupWorkspaceName(global_number, local_number) ==
    create_name(WorkspaceGroupingMetadata(Some(global_number), Some(<<"a">>),
                                          None, None, local_number)).val

MonitorWorkspaces(locals) ==
    [i \in 1..Len(locals) |-> Con(i, GroupWorkspaceName(i, locals[i]))]

OtherWorkspaces(used) ==
    LET InUsed(n) == n \in used
        numbers == SelectSeq([n \in 1..(MAX_WORKSPACES_PER_GROUP - 1) |-> n],
                             InUsed)
    IN  [k \in 1..Len(numbers) |->
            Con(MAX_WORKSPACES_PER_GROUP + numbers[k],
                GroupWorkspaceName(MAX_WORKSPACES_PER_GROUP
                                       * MAX_GROUPS_PER_MONITOR + numbers[k],
                                   Some(numbers[k])))]

\* A few small numbers, all but the last one or none of 1..99, or the
\* last one alone
OtherUsedSamples ==
    (SUBSET (1..MaxLocalNumber))
        \cup {1..(MAX_WORKSPACES_PER_GROUP - 2), 1..(MAX_WORKSPACES_PER_GROUP - 1),
              {MAX_WORKSPACES_PER_GROUP - 1}}

MonitorLocalsSamples ==
    Seqs({None} \cup {Some(n) : n \in 1..MaxLocalNumber}, MaxMonitorWorkspaces)

InitLocal ==
    /\ fn = "compute_local_numbers"
    /\ \E used \in OtherUsedSamples, locals \in MonitorLocalsSamples,
          renumber \in BOOLEAN :
           arg = [monitor_workspaces |-> MonitorWorkspaces(locals),
                  all_workspaces |-> MonitorWorkspaces(locals)
                                         \o OtherWorkspaces(used),
                  renumber_workspaces |-> renumber]
    /\ ret = Pending
    /\ NoController

ComputeLocalNumbersRenumber ==
    /\ fn = "compute_local_numbers" /\ ret = Pending
    /\ arg.renumber_workspaces
    /\ ret' = compute_local_numbers(arg.monitor_workspaces, arg.all_workspaces,
                                    TRUE)
    /\ UNCHANGED <<fn, arg, outputs, focused, config, last, commands,
                 server>>

ComputeLocalNumbersPreserve ==
    /\ fn = "compute_local_numbers" /\ ret = Pending
    /\ ~arg.renumber_workspaces
    /\ ret' = compute_local_numbers(arg.monitor_workspaces, arg.all_workspaces,
                                    FALSE)
    /\ UNCHANGED <<fn, arg, outputs, focused, config, last, commands,
                 server>>

NextLocal == ComputeLocalNumbersRenumber \/ ComputeLocalNumbersPreserve

SpecLocal == InitLocal /\ [][NextLocal]_vars

\* What the claims about compute_local_numbers speak of: the existing local
\* number of the i-th monitor workspace, and the numbers of the group's
\* workspaces on other monitors.
ExistingLocal(i) == Parsed(arg.monitor_workspaces[i].name).local_number
UsedElsewhere ==
    LET OnMonitor(id) == \E i \in 1..Len(arg.monitor_workspaces) :
                             arg.monitor_workspaces[i].id = id
        elsewhere == {j \in 1..Len(arg.all_workspaces) :
                         ~OnMonitor(arg.all_workspaces[j].id)}
        local_numbers == {Parsed(arg.all_workspaces[j].name).local_number :
                             j \in elsewhere}
    IN  {Val(local_number) : local_number \in local_numbers \ {None}}

\* C5: preserve mode: a workspace whose local number is present and not
\* claimed on another monitor keeps it; every other workspace is assigned
\* max(used, already assigned in this call) + 1, so reassigned numbers are
\* strictly increasing and never equal a number kept or assigned in the
\* same call.
C5_PreserveMode ==
    (fn = "compute_local_numbers" /\ ret # Pending /\ ~arg.renumber_workspaces)
        => LET used == UsedElsewhere
               Kept(i) == ~IsNone(ExistingLocal(i))
                              /\ Val(ExistingLocal(i)) \notin used
           IN  /\ ret.exc = ""
               /\ Len(ret.val) = Len(arg.monitor_workspaces)
               /\ \A i \in 1..Len(ret.val) :
                      IF Kept(i) THEN ret.val[i] = Val(ExistingLocal(i))
                      ELSE /\ ret.val[i] =
                                Max({0} \cup used
                                        \cup {ret.val[j] : j \in 1..(i - 1)}) + 1
                           /\ \A j \in 1..Len(ret.val) :
                                  j # i => ret.val[j] # ret.val[i]
                           /\ \A j \in 1..(i - 1) :
                                  ~Kept(j) => ret.val[j] < ret.val[i]

\* The result is the count lowest integers >= 1 outside used, in order.
LowestFreeOf(result, count, used) ==
    /\ Len(result) = count
    /\ \A i \in 1..Len(result) :
           /\ result[i] >= 1 /\ result[i] \notin used
           /\ Cardinality({n \in 1..result[i] : n \notin used}) = i

\* C6 as stated: renumber mode returns, for any input, one number per monitor
\* workspace: the len(monitor_workspaces) lowest integers >= 1 not used by
\* the group's workspaces on other monitors.
C6_RenumberAnyInput ==
    (fn = "compute_local_numbers" /\ ret # Pending /\ arg.renumber_workspaces)
        => /\ ret.exc = ""
           /\ LowestFreeOf(ret.val, Len(arg.monitor_workspaces), UsedElsewhere)

\* C6 amended: the same, provided len(monitor_workspaces) numbers below
\* MAX_WORKSPACES_PER_GROUP are not used on other monitors (otherwise the
\* call fails with the capacity assertion).
C6_Renumber ==
    (fn = "compute_local_numbers" /\ ret # Pending /\ arg.renumber_workspaces)
        => LET used == UsedElsewhere
           IN  Cardinality(FreeNumbers(used)) >= Len(arg.monitor_workspaces)
                   => /\ ret.exc = ""
                      /\ LowestFreeOf(ret.val, Len(arg.monitor_workspaces), used)

\* Monitor workspaces numbered 1 and 2, number 1 used on another monitor
C6_Witness ==
    /\ fn = "compute_local_numbers" /\ ret # Pending /\ arg.renumber_workspaces
    /\ Len(arg.monitor_workspaces) = 2
    /\ ExistingLocal(1) = Some(1) /\ ExistingLocal(2) = Some(2)
    /\ Len(arg.all_workspaces) = 3
    /\ ret.val = <<2, 3>>

(***************************************************************************)
(* The controller specification: commands of the tool and of the user on   *)
(* a running i3.                                                           *)
(***************************************************************************)
NoPureFunction == fn = "" /\ arg = <<>> /\ ret = <<>>

\* The behaviours checked run at most this many commands
MaxCommands == 5

Bounded(tree) ==
    /\ Cardinality(Ids(tree)) <= MaxWorkspaces
    /\ get_used_local_numbers(workspaces(tree)) \subseteq 0..MaxLocal

\* The i3 commands of a run in the order sent: the renames, then the focus
\* command if there is one
CommandLog(st, name) ==
    [i \in 1..Len(st.sent) |-> "rename"]
        \o (IF name.exc = "" /\ ~IsNone(name.val) THEN <<"workspace">> ELSE <<>>)

\* The first workspace of the group on monitor m, if there is one
FirstOfGroup(tree, m, group) ==
    {GroupGet(get_group_to_workspaces(tree[m]), group)[i].id :
        i \in {1} \cap DOMAIN GroupGet(get_group_to_workspaces(tree[m]), group)}

\* What is kept of a command: its name and inputs, the monitor that was
\* focused and the monitors that had the target group when it started, the
\* monitors with a workspace it sent a rename command for, whether i3
\* refused a rename, of each rename command sent the two names and the
\* names i3 had then, the names per monitor when the command started, the
\* names per monitor of the cached tree and of i3 after the renames, the
\* organize passes it ran (the monitor and the
\* ordered group names of each), the workspace name its focus command made
\* i3 create, its exception, and of its focus command: whether the
\* focused workspace was in the group when the command started, the number
\* of focus commands sent and whether one was the last command sent,
\* whether the same workspace is focused afterwards and whether the first
\* workspace of the group on the focused monitor is.
Command(op, group, focused_monitor_only, tree, focus, st, name, end, focused_after) ==
    [op |-> op,
     group |-> group,
     focused_monitor_only |-> focused_monitor_only,
     focused_monitor |-> MonitorOf(tree, focus),
     had_group |-> {m \in Monitors :
                       group \in GroupKeys(get_group_to_workspaces(tree[m]))},
     renamed |-> {MonitorOf(tree, st.sent[i].id) :
                     i \in {j \in 1..Len(st.sent) : st.sent[j].id # 0}},
     refused |-> \E i \in 1..Len(st.sent) : ~st.sent[i].success,
     renames |-> AsSeq([i \in 1..Len(st.sent) |->
                     [old_name |-> st.sent[i].old_name,
                      new_name |-> st.sent[i].new_name,
                      names |-> st.sent[i].names]]),
     before |-> TreeNames(tree),
     snapshot |-> TreeNames(st.tree),
     i3 |-> TreeNames(st.i3),
     passes |-> AsSeq([p \in 1..Len(st.passes) |->
                    [monitor |-> st.passes[p].monitor,
                     groups |-> AsSeq([k \in 1..Len(st.passes[p].groups) |->
                                    st.passes[p].groups[k].group])]]),
     created |-> IF name.exc = "" /\ ~IsNone(name.val)
                    /\ Val(name.val) \notin Names(st.i3)
                 THEN name.val ELSE None,
     exc |-> IF st.exc # "" THEN st.exc ELSE name.exc,
     was_in_group |-> get_group(Con(focus, NameOf(tree, focus))) = group,
     focus_commands |-> Cardinality({i \in 1..Len(CommandLog(st, name)) :
                                       CommandLog(st, name)[i] = "workspace"}),
     focus_last |-> CommandLog(st, name) # <<>>
                    /\ CommandLog(st, name)[Len(CommandLog(st, name))] = "workspace",
     kept |-> focused_after = focus,
     first_focused |-> FirstOfGroup(tree, MonitorOf(tree, focus), group)
                           = {focused_after}]

\* A command of the user to i3 itself
I3Command(tree, focus) ==
    Command("i3", <<>>, FALSE, tree, focus, StartCommand(tree), Ok(None), tree,
            focus)

\* i3 starts with one workspace per monitor, named by its number
Init ==
    /\ NoPureFunction
    /\ outputs = AsSeq([m \in Monitors |-> <<IntToStr(m)>>])
    /\ focused \in {IntToStr(m) : m \in Monitors}
    /\ config \in [renumber_workspaces : BOOLEAN]
    /\ last = I3Command(GetTree(outputs), IdOf(GetTree(outputs), focused))
    /\ commands = 0
    /\ NoServer

\* The user runs i3's "workspace name".  (The values a command computes
\* once are bound by \E over a singleton.)
UserWorkspace ==
    /\ commands < MaxCommands
    /\ \E tree \in {GetTree(outputs)} :
           \E focus \in {IdOf(tree, focused)}, name \in LegacyNames \cup Names(tree) :
               \E outcome \in I3Workspace(tree, focus, name) :
                   /\ Bounded(outcome.outputs)
                   /\ outputs' = TreeNames(outcome.outputs)
                   /\ focused' = NameOf(outcome.outputs, outcome.focused)
                   /\ last' = I3Command(outcome.outputs, outcome.focused)
                   /\ commands' = commands + 1
                   /\ UNCHANGED <<fn, arg, ret, config, server>>

\* The outcomes of switch_active_group's focus command, if it sends one
SwitchFocus(st, focus, name) ==
    IF name.exc # "" \/ IsNone(name.val)
    THEN {[outputs |-> st.i3, focused |-> focus]}
    ELSE I3Workspace(st.i3, focus, Val(name.val))

\* i3-workspace-groups switch-active-group, run_command to the end
SwitchActiveGroupOn(groups, max_commands) ==
    /\ commands < max_commands
    /\ \E target_group \in groups, focused_monitor_only \in BOOLEAN,
          tree \in {GetTree(outputs)} :
           \E focus \in {IdOf(tree, focused)} :
               \E st \in {SwitchMonitors(StartCommand(tree), 1,
                                         MonitorOf(tree, focus), target_group,
                                         focused_monitor_only,
                                         config.renumber_workspaces)} :
                   \E name \in {IF st.exc # "" THEN Ok(None)
                                ELSE SwitchFocusName(st.tree, focus,
                                                     MonitorOf(tree, focus),
                                                     target_group)} :
                       \E outcome \in SwitchFocus(st, focus, name) :
                           /\ Bounded(outcome.outputs)
                           /\ outputs' = TreeNames(outcome.outputs)
                           /\ focused' = NameOf(outcome.outputs, outcome.focused)
                           /\ last' = Command("switch_active_group",
                                              target_group, focused_monitor_only,
                                              tree, focus, st, name,
                                              outcome.outputs, outcome.focused)
                           /\ commands' = commands + 1
                           /\ UNCHANGED <<fn, arg, ret, config, server>>

\* switch-active-group with the group names of this specification
SwitchActiveGroup == SwitchActiveGroupOn(GroupNames, MaxCommands)

\* The autonamer's update_workspace_names on a window or focus event
UpdateWorkspaceNames ==
    /\ commands < MaxCommands
    /\ \E tree \in {GetTree(outputs)} :
           \E focus \in {IdOf(tree, focused)} :
               \E st \in {organize_workspace_groups(
                              StartCommand(tree),
                              get_group_to_workspaces(tree[MonitorOf(tree, focus)]),
                              MonitorOf(tree, focus),
                              config.renumber_workspaces)} :
                   /\ Bounded(st.i3)
                   /\ outputs' = TreeNames(st.i3)
                   /\ focused' = NameOf(st.i3, focus)
                   /\ last' = Command("update_workspace_names", <<>>, FALSE, tree,
                                      focus, st, Ok(None), st.i3, focus)
                   /\ commands' = commands + 1
                   /\ UNCHANGED <<fn, arg, ret, config, server>>

Next == UserWorkspace \/ SwitchActiveGroup \/ UpdateWorkspaceNames

Spec == Init /\ [][Next]_vars

(***************************************************************************)
(* Properties of the controller commands                                   *)
(***************************************************************************)
NamesOn(m) == {outputs[m][i] : i \in 1..Len(outputs[m])}

GroupOf(name) == Val(Parsed(name).group)

\* The command op was the last one and returned without an exception
Completed(op) == last.op = op /\ last.exc = ""

\* The workspaces of monitor m an organize pass of the last command
\* processed: all but the one its focus command made i3 create afterwards
Processed(m) == NamesOn(m) \ {Val(name) : name \in {last.created} \ {None}}

OrganizedMonitors == {last.passes[p].monitor : p \in 1..Len(last.passes)}

\* The (group, local_number) pair a workspace name decodes to
PairOf(name) == <<GroupOf(name), Parsed(name).local_number>>

\* C7: after any organize pass, no two processed workspaces of the monitor
\* have the same (group, local_number) pair, and no processed workspace
\* has the pair of a workspace on another monitor.
C7_UniquePairs ==
    (last.op # "i3" /\ last.exc = "") =>
        \A m \in OrganizedMonitors : \A name \in Processed(m) :
            /\ \A other \in Processed(m) \ {name} : PairOf(other) # PairOf(name)
            /\ \A m2 \in Monitors \ {m} : \A other \in NamesOn(m2) :
                   PairOf(other) # PairOf(name)

\* The position of a group in the ordered sequence of a pass, from 0
PositionOf(groups, group) ==
    (CHOOSE k \in 1..Len(groups) : groups[k] = group) - 1

\* A processed workspace name carries the numbers of its place in the pass
Numbered(pass, name) ==
    LET ws_metadata == Parsed(name)
        groups == pass.groups
    IN  /\ ~IsNone(ws_metadata.global_number)
        /\ ~IsNone(ws_metadata.local_number)
        /\ \E k \in 1..Len(groups) : groups[k] = GroupOf(name)
        /\ Val(ws_metadata.global_number) =
               get_monitor_index(pass.monitor) * 100000
               + PositionOf(groups, GroupOf(name)) * 100
               + Val(ws_metadata.local_number)
        /\ global_number_to_group_index(Val(ws_metadata.global_number)) =
               PositionOf(groups, GroupOf(name))
        /\ global_number_to_local_number(Val(ws_metadata.global_number)) =
               Val(ws_metadata.local_number)

\* C8: after an organize pass over the ordered groups of a monitor, every
\* processed workspace's name decodes to global_number = monitor_index *
\* 100000 + position * 100 + local_number, position being the index of its
\* group in the sequence; a workspace of an earlier group has a smaller
\* global number than one of a later group; the inverse functions give
\* back the position and the local number.
C8_GlobalNumbers ==
    (last.op # "i3" /\ last.exc = "") =>
        \A p \in 1..Len(last.passes) :
            LET pass == last.passes[p]
            IN  /\ \A name \in Processed(pass.monitor) : Numbered(pass, name)
                /\ \A n1, n2 \in Processed(pass.monitor) :
                       PositionOf(pass.groups, GroupOf(n1))
                           < PositionOf(pass.groups, GroupOf(n2))
                       => Val(Parsed(n1).global_number)
                              < Val(Parsed(n2).global_number)

\* The workspaces of monitor m in the group, and in other groups
InGroup(m, group) == {name \in NamesOn(m) : GroupOf(name) = group}

NotInGroup(m, group) == NamesOn(m) \ InGroup(m, group)

HasGlobal(name) == ~IsNone(Parsed(name).global_number)

GlobalOf(name) == Val(Parsed(name).global_number)

\* The group is the active group of monitor m: a workspace of the group
\* has the lowest global number of the monitor, and each workspace of the
\* group has a global number, smaller than that of each workspace of
\* another group (a workspace without a global number has none to compare;
\* i3 lists it after the numbered ones).
ActiveOn(m, group) ==
    /\ \E n1 \in InGroup(m, group) :
           /\ HasGlobal(n1)
           /\ \A n2 \in NamesOn(m) : HasGlobal(n2) => GlobalOf(n1) <= GlobalOf(n2)
    /\ \A n1 \in InGroup(m, group), n2 \in NotInGroup(m, group) :
           /\ HasGlobal(n1)
           /\ HasGlobal(n2) => GlobalOf(n1) < GlobalOf(n2)

\* C9: after switch_active_group(g, focused_monitor_only) completes, g is
\* the active group of the focused monitor: the workspace with the lowest
\* global number there belongs to g, and every workspace of g there has a
\* smaller global number than every workspace of any other group there.
C9_ActiveGroup ==
    Completed("switch_active_group") => ActiveOn(last.focused_monitor, last.group)

\* With renumber_workspaces set, the pairs are unique
C7_RenumberMode == config.renumber_workspaces => C7_UniquePairs

\* With renumber_workspaces set, or when i3 accepted every rename command,
\* the names carry the numbers of the pass
C8_RenumberMode == config.renumber_workspaces => C8_GlobalNumbers

C8_AcceptedRenames == ~last.refused => C8_GlobalNumbers

\* When i3 accepted every rename command, the target group is active
C9_AcceptedRenames == ~last.refused => C9_ActiveGroup

\* The last command organized monitor m with the group first
OrganizedFirst(m, group) ==
    \E p \in 1..Len(last.passes) :
        /\ last.passes[p].monitor = m
        /\ last.passes[p].groups[1] = group

\* The non-focused monitors that had the target group are reordered
Reordered ==
    (Completed("switch_active_group") /\ ~last.focused_monitor_only) =>
        \A m \in last.had_group \ {last.focused_monitor} :
            OrganizedFirst(m, last.group) /\ ActiveOn(m, last.group)

\* The non-focused monitors the command is to leave alone
LeftAlone ==
    {m \in Monitors \ {last.focused_monitor} :
        last.focused_monitor_only \/ m \notin last.had_group}

\* A step of switch_active_group sends no rename command for a workspace
\* of a monitor it is to leave alone, and leaves the names there unchanged
Untouched ==
    (Completed("switch_active_group"))' =>
        \A m \in LeftAlone' : m \notin last'.renamed /\ outputs'[m] = outputs[m]

\* C10: switch_active_group(g, focused_monitor_only): when
\* focused_monitor_only is false, every non-focused monitor that already
\* has a workspace in g is reordered so g is first there too; a
\* non-focused monitor with no workspace in g receives no rename command
\* and keeps its workspace names; when focused_monitor_only is true, no
\* workspace of a non-focused monitor is renamed.
C10_OtherMonitors == [][Reordered' /\ Untouched]_vars

\* The monitors that are to be left alone are
C10_Untouched == [][Untouched]_vars

\* When i3 accepted every rename command, the other monitors are reordered
C10_AcceptedRenames == [][~last'.refused => (Reordered' /\ Untouched)]_vars

\* The focus command of the last command made i3 create the focused
\* workspace as a workspace of the first group of its monitor
CreatedFirst ==
    /\ ~IsNone(last.created)
    /\ focused = Val(last.created)
    /\ HasGlobal(focused)
    /\ global_number_to_group_index(GlobalOf(focused)) = 0
    /\ \A name \in NamesOn(last.focused_monitor) \ {focused} :
           HasGlobal(name) => GlobalOf(focused) < GlobalOf(name)

ActiveGroupContext == [kind |-> "active", group_name |-> <<>>]

FocusedGroupContext == [kind |-> "focused", group_name |-> <<>>]

NamedGroupContext(group_name) == [kind |-> "named", group_name |-> group_name]

\* next(iter(group_to_workspaces))
ActiveGroupContext_get_group_name(tree, group_to_workspaces) ==
    IF Len(group_to_workspaces) = 0 THEN Raise("StopIteration")
    ELSE Ok(group_to_workspaces[1].group)

FocusedGroupContext_get_group_name(tree, focus) ==
    Ok(get_group(Con(focus, NameOf(tree, focus))))

NamedGroupContext_get_group_name(group_name, tree, group_to_workspaces) ==
    Ok(group_name)

\* group_context.get_group_name(tree, group_to_workspaces)
GroupContext_get_group_name(context, tree, focus, group_to_workspaces) ==
    IF context.kind = "active"
    THEN ActiveGroupContext_get_group_name(tree, group_to_workspaces)
    ELSE IF context.kind = "focused"
    THEN FocusedGroupContext_get_group_name(tree, focus)
    ELSE NamedGroupContext_get_group_name(context.group_name, tree,
                                          group_to_workspaces)

_get_group_from_context(tree, focus, group_context) ==
    Once({GroupContext_get_group_name(context, tree, focus,
                                      group_to_monitor_workspaces) :
             context \in {IF IsNone(group_context) THEN ActiveGroupContext
                          ELSE Val(group_context)},
             group_to_monitor_workspaces \in
                 {get_group_to_workspaces(tree[MonitorOf(tree, focus)])}})

\* The values of an OrderedDict of lists, concatenated
RECURSIVE SumValues(_, _)
SumValues(group_to_workspaces, k) ==
    IF k > Len(group_to_workspaces) THEN <<>>
    ELSE group_to_workspaces[k].workspaces \o SumValues(group_to_workspaces, k + 1)

\* The value is the list of the workspaces, as containers
list_workspaces(tree, focus, group_context, focused_only, monitor_only) ==
    Once({Once({IF group_workspaces.exc # "" \/ ~focused_only THEN group_workspaces
                ELSE LET IsFocused(ws) == ws.id = focus
                     IN  Ok(SelectSeq(group_workspaces.val, IsFocused)) :
                   group_workspaces \in
                       {IF IsNone(group_context)
                        THEN Ok(SumValues(group_to_workspaces, 1))
                        ELSE Once({IF group_name.exc # "" THEN group_name
                                   ELSE Ok(GroupGet(group_to_workspaces,
                                                    group_name.val)) :
                                      group_name \in
                                          {GroupContext_get_group_name(
                                               Val(group_context), tree, focus,
                                               group_to_workspaces)}})}}) :
             group_to_workspaces \in
                 {get_group_to_workspaces(
                      IF monitor_only THEN tree[MonitorOf(tree, focus)]
                      ELSE workspaces(tree))}})

\* _create_workspace_name with the group index of the first group
_create_workspace_name_FirstGroup(tree, focus, metadata) ==
    Once({IF global_number.exc # "" THEN global_number
          ELSE create_name([metadata EXCEPT
                               !.global_number = Some(global_number.val)]) :
             global_number \in
                 {compute_global_number(
                      get_monitor_index(MonitorOf(tree, focus)), 0,
                      IF IsNone(metadata.local_number) THEN 1
                      ELSE Val(metadata.local_number))}})

_create_workspace_name(tree, focus, metadata) ==
    Once({IF global_number.exc # "" THEN global_number
          ELSE create_name([metadata EXCEPT
                               !.global_number = Some(global_number.val)]) :
             global_number \in
                 {compute_global_number(
                      get_monitor_index(MonitorOf(tree, focus)),
                      get_group_index(
                          Val(metadata.group),
                          get_group_to_workspaces(tree[MonitorOf(tree, focus)])),
                      IF IsNone(metadata.local_number) THEN 1
                      ELSE Val(metadata.local_number))}})

\* _get_workspace_by_local_number looking at the focused monitor only
_get_workspace_by_local_number_FocusedMonitor(tree, focus, group, local_number) ==
    Once({Once({IF found # {}
                THEN Ok([name |-> group_workspaces[Min(found)].name,
                         exists |-> TRUE])
                ELSE Once({IF name.exc # "" THEN name
                           ELSE Ok([name |-> name.val, exists |-> FALSE]) :
                              name \in {_create_workspace_name(
                                           tree, focus,
                                           WorkspaceGroupingMetadata(
                                               None, Some(group), None, None,
                                               local_number))}}) :
                   found \in {{i \in 1..Len(group_workspaces) :
                                  get_local_workspace_number(group_workspaces[i])
                                      = local_number}}}) :
             group_workspaces \in
                 {GroupGet(get_group_to_workspaces(tree[MonitorOf(tree, focus)]),
                           group)}})

\* local_number is an Optional: update_focused_workspace passes the None
\* of a name without a local number.  The value is [name, exists].
_get_workspace_by_local_number(tree, focus, group, local_number) ==
    Once({Once({IF found # {}
                THEN Ok([name |-> group_workspaces[Min(found)].name,
                         exists |-> TRUE])
                ELSE Once({IF name.exc # "" THEN name
                           ELSE Ok([name |-> name.val, exists |-> FALSE]) :
                              name \in {_create_workspace_name(
                                           tree, focus,
                                           WorkspaceGroupingMetadata(
                                               None, Some(group), None, None,
                                               local_number))}}) :
                   found \in {{i \in 1..Len(group_workspaces) :
                                  get_local_workspace_number(group_workspaces[i])
                                      = local_number}}}) :
             group_workspaces \in
                 {GroupGet(get_group_to_workspaces(workspaces(tree)), group)}})

\* focus_workspace_number and move_to_workspace_number up to their i3
\* command: the group of the context and the workspace name found or made
WorkspaceNumberTarget(tree, focus, group_context, target_local_number) ==
    Once({IF group.exc # "" THEN [exc |-> group.exc, group |-> None, found |-> <<>>]
          ELSE Once({[exc |-> found.exc, group |-> Some(group.val),
                      found |-> found.val] :
                        found \in {_get_workspace_by_local_number(
                                      tree, focus, group.val,
                                      Some(target_local_number))}}) :
             group \in {_get_group_from_context(tree, focus, group_context)}})

\* focus_new_workspace and move_to_new_workspace up to their i3 command:
\* the free local number found, and the target of the number command they
\* call with it
NewWorkspaceTarget(tree, focus, group_context) ==
    Once({IF target_group.exc # ""
          THEN [exc |-> target_group.exc, group |-> None, found |-> <<>>,
                local_number |-> 0]
          ELSE Once({IF local_number.exc # ""
                     THEN [exc |-> local_number.exc,
                           group |-> Some(target_group.val), found |-> <<>>,
                           local_number |-> 0]
                     ELSE Once({[exc |-> target.exc, group |-> target.group,
                                 found |-> target.found,
                                 local_number |-> local_number.val] :
                                   target \in {WorkspaceNumberTarget(
                                                  tree, focus, group_context,
                                                  local_number.val)}}) :
                        local_number \in
                            {_find_free_local_number(tree, target_group.val)}}) :
             target_group \in {_get_group_from_context(tree, focus, group_context)}})

\* _relative_workspace_in_group that always steps forward
_relative_workspace_in_group_Forward(tree, focus, offset_from_current) ==
    Once({Once({group_workspaces_all_monitors[
                    ((current_workspace_index + 1)
                         % Len(group_workspaces_all_monitors)) + 1] :
                   current_workspace_index \in
                       {i \in 0..(Len(group_workspaces_all_monitors) - 1) :
                           group_workspaces_all_monitors[i + 1].id = focus}}) :
             group_workspaces_all_monitors \in
                 {GroupGet(get_group_to_workspaces(workspaces(tree)),
                           get_group(Con(focus, NameOf(tree, focus))))}})

\* The workspace returned, as a container of the tree
_relative_workspace_in_group(tree, focus, offset_from_current) ==
    Once({Once({group_workspaces_all_monitors[
                    ((current_workspace_index + offset_from_current)
                         % Len(group_workspaces_all_monitors)) + 1] :
                   current_workspace_index \in
                       {i \in 0..(Len(group_workspaces_all_monitors) - 1) :
                           group_workspaces_all_monitors[i + 1].id = focus}}) :
             group_workspaces_all_monitors \in
                 {GroupGet(get_group_to_workspaces(workspaces(tree)),
                           get_group(Con(focus, NameOf(tree, focus))))}})

\* The loop of update_focused_workspace over the sections it may overwrite
OverwriteSections(metadata, metadata_updates) ==
    [metadata EXCEPT
        !.group = IF IsNone(metadata_updates.group) THEN @
                  ELSE metadata_updates.group,
        !.local_number = IF IsNone(metadata_updates.local_number) THEN @
                         ELSE metadata_updates.local_number,
        !.static_name = IF IsNone(metadata_updates.static_name) THEN @
                        ELSE metadata_updates.static_name]

\* What update_focused_workspace does with the metadata after the overwrite
UpdateName(tree, focus, metadata, use_next_available_number) ==
    Once({
        IF found.exc # "" THEN Raise(found.exc)
        ELSE IF found.val.exists /\ NameOf(tree, focus) # found.val.name
                /\ ~use_next_available_number
        THEN Raise("WorkspaceGroupsError: Workspace with local number already exists in group")
        ELSE IF found.val.exists /\ NameOf(tree, focus) # found.val.name
        THEN Once({IF free_local_numbers.exc # "" THEN Raise(free_local_numbers.exc)
                   ELSE Once({IF name.exc # "" THEN Raise(name.exc)
                              ELSE Ok([metadata |-> metadata, conflict |-> TRUE,
                                       name |-> name.val]) :
                                 name \in {_create_workspace_name(
                                              tree, focus,
                                              [metadata EXCEPT !.local_number =
                                                  Some(free_local_numbers.val[1])])}}) :
                      free_local_numbers \in
                          {get_lowest_free_local_numbers(
                               1, get_used_local_numbers(
                                      GroupGet(get_group_to_workspaces(workspaces(tree)),
                                               Val(metadata.group))))}})
        ELSE Once({IF name.exc # "" THEN Raise(name.exc)
                   ELSE Ok([metadata |-> metadata, conflict |-> FALSE,
                            name |-> name.val]) :
                      name \in {_create_workspace_name(tree, focus, metadata)}}) :
            found \in {_get_workspace_by_local_number(
                          tree, focus, Val(metadata.group),
                          metadata.local_number)}})

\* update_focused_workspace up to its rename command.  The value is the
\* metadata after the overwrite, whether another workspace was found with
\* its group and local number (conflict), and the new name.
update_focused_workspace(tree, focus, metadata_updates, use_next_available_number) ==
    IF ~IsNone(metadata_updates.group)
       /\ ~is_valid_group_name(Val(metadata_updates.group))
    THEN Raise("WorkspaceGroupsError: Invalid group name provided")
    ELSE Once({UpdateName(tree, focus, metadata, use_next_available_number) :
                  metadata \in {OverwriteSections(Parsed(NameOf(tree, focus)),
                                                  metadata_updates)}})

(***************************************************************************)
(* The specification of these commands: each runs, run_command to the      *)
(* end, on an i3 in a state the controller specification reaches.          *)
(***************************************************************************)

\* i3's "move container to workspace name": the focused container moves to
\* the workspace of that name, which i3 creates on the focused monitor
\* when there is none; the focus stays.  Nothing moves when the focused
\* workspace has no window, which the tree of workspaces does not tell.
I3MoveContainer(tree, focus, name) ==
    {tree} \cup {[tree EXCEPT ![MonitorOf(tree, focus)] =
                     I3Attach(@, Con(FreshId(tree), name))] :
                    new \in {name} \ Names(tree)}

\* The name create_name gives a workspace organized on a monitor
OrganizedName(monitor_index, group_index, group, static_name, local_number) ==
    create_name(WorkspaceGroupingMetadata(
        Some(compute_global_number(monitor_index, group_index, local_number).val),
        Some(group), Some(static_name), Some(<<>>), Some(local_number))).val

\* Workspace names the controller specification reaches: those of i3's
\* start after the user's "workspace x", those after switch-active-group
\* of the default group, and those after switch-active-group a.
StartOutputs ==
    {<<<<<<"1">>, <<"x">>>>, <<<<"2">>>>>>,
     <<<<OrganizedName(0, 0, <<>>, <<"1">>, 1)>>,
       <<OrganizedName(1, 0, <<>>, <<"2">>, 2)>>>>,
     <<<<OrganizedName(0, 0, <<"a">>, <<>>, 1),
         OrganizedName(0, 1, <<>>, <<"1">>, 1)>>,
       <<OrganizedName(1, 0, <<>>, <<"2">>, 2)>>>>}

\* The arguments given to the commands
GroupContexts ==
    {None, Some(FocusedGroupContext), Some(NamedGroupContext(<<"a">>))}

TargetNumbers == 1..MaxLocal

MetadataUpdates ==
    {WorkspaceGroupingMetadata(None, group, static_name, None, local_number) :
        group \in {None, Some(<<>>), Some(<<"a">>)},
        static_name \in {None, Some(<<"y">>)},
        local_number \in {None} \cup {Some(n) : n \in TargetNumbers}}

\* The behaviours checked run at most this many of the commands
MaxGroupCommands == 2

\* What is kept of a command: its name, exception and arguments; the
\* workspace names, the focused workspace and monitor when it started; the
\* group of its context; the workspace name it found or made and whether
\* it found it; for update_focused_workspace the metadata after the
\* overwrite and whether another workspace was found with its group and
\* local number; the i3 commands sent; whether i3 closed a workspace; for
\* list_workspaces its flags and the names of the workspaces it returned.
Ran(op, tree, focus, exc) ==
    [op |-> op, exc |-> exc,
     before |-> TreeNames(tree),
     focused_before |-> NameOf(tree, focus),
     focused_monitor |-> MonitorOf(tree, focus),
     group_context |-> None, number |-> 0, metadata_updates |-> <<>>,
     group |-> None, name |-> None, exists |-> FALSE,
     metadata |-> <<>>, conflict |-> FALSE,
     sent |-> <<>>, closed |-> FALSE,
     run |-> 0, run_start |-> <<>>, run_len |-> 0, run_closed |-> FALSE,
     focused_only |-> FALSE, monitor_only |-> FALSE, listed |-> <<>>]

Sent(command, name) == [command |-> command, name |-> name]

InitCommands ==
    /\ NoPureFunction
    /\ outputs \in StartOutputs
    /\ focused \in UNION {{outputs[m][i] : i \in 1..Len(outputs[m])} :
                             m \in Monitors}
    /\ config \in [use_next_available_number : BOOLEAN]
    /\ last = Ran("i3", GetTree(outputs), IdOf(GetTree(outputs), focused), "")
    /\ commands = 0
    /\ NoServer

\* What a number command did, from its target
NumberCommand(op, tree, focus, group_context, n, target, command) ==
    [Ran(op, tree, focus, target.exc) EXCEPT
        !.group_context = group_context,
        !.number = n,
        !.group = target.group,
        !.name = IF target.exc # "" THEN None ELSE Some(target.found.name),
        !.exists = target.exc = "" /\ target.found.exists,
        !.sent = IF target.exc # "" THEN <<>>
                 ELSE <<Sent(command, target.found.name)>>]

\* i3-workspace-groups workspace-number
FocusWorkspaceNumberOn(contexts, numbers, max_commands) ==
    /\ commands < max_commands
    /\ \E group_context \in contexts, n \in numbers,
          tree \in {GetTree(outputs)} :
           \E focus \in {IdOf(tree, focused)} :
               \E target \in {WorkspaceNumberTarget(tree, focus, group_context, n)} :
                   \E outcome \in (IF target.exc # ""
                                   THEN {[outputs |-> tree, focused |-> focus]}
                                   ELSE I3Workspace(tree, focus, target.found.name)) :
                       /\ Bounded(outcome.outputs)
                       /\ outputs' = TreeNames(outcome.outputs)
                       /\ focused' = NameOf(outcome.outputs, outcome.focused)
                       /\ last' = [NumberCommand("focus_workspace_number", tree,
                                                 focus, group_context, n, target,
                                                 "workspace")
                                       EXCEPT !.closed = ~(Names(tree) \subseteq
                                                  Names(outcome.outputs))]
                       /\ commands' = commands + 1
                       /\ UNCHANGED <<fn, arg, ret, config, server>>

\* workspace-number with the contexts of this specification
FocusWorkspaceNumber ==
    FocusWorkspaceNumberOn(GroupContexts, TargetNumbers, MaxGroupCommands)

\* i3-workspace-groups move-to-number
MoveToWorkspaceNumber ==
    /\ commands < MaxGroupCommands
    /\ \E group_context \in GroupContexts, n \in TargetNumbers,
          tree \in {GetTree(outputs)} :
           \E focus \in {IdOf(tree, focused)} :
               \E target \in {WorkspaceNumberTarget(tree, focus, group_context, n)} :
                   \E end \in (IF target.exc # "" THEN {tree}
                               ELSE I3MoveContainer(tree, focus, target.found.name)) :
                       /\ Bounded(end)
                       /\ outputs' = TreeNames(end)
                       /\ focused' = focused
                       /\ last' = NumberCommand("move_to_workspace_number", tree,
                                                focus, group_context, n, target,
                                                "move")
                       /\ commands' = commands + 1
                       /\ UNCHANGED <<fn, arg, ret, config, server>>

\* i3-workspace-groups workspace-new
FocusNewWorkspace ==
    /\ commands < MaxGroupCommands
    /\ \E group_context \in GroupContexts, tree \in {GetTree(outputs)} :
           \E focus \in {IdOf(tree, focused)} :
               \E target \in {NewWorkspaceTarget(tree, focus, group_context)} :
                   \E outcome \in (IF target.exc # ""
                                   THEN {[outputs |-> tree, focused |-> focus]}
                                   ELSE I3Workspace(tree, focus, target.found.name)) :
                       /\ Bounded(outcome.outputs)
                       /\ outputs' = TreeNames(outcome.outputs)
                       /\ focused' = NameOf(outcome.outputs, outcome.focused)
                       /\ last' = [NumberCommand("focus_new_workspace", tree,
                                                 focus, group_context,
                                                 target.local_number, target,
                                                 "workspace")
                                       EXCEPT !.closed = ~(Names(tree) \subseteq
                                                  Names(outcome.outputs))]
                       /\ commands' = commands + 1
                       /\ UNCHANGED <<fn, arg, ret, config, server>>

\* i3-workspace-groups move-to-new
MoveToNewWorkspace ==
    /\ commands < MaxGroupCommands
    /\ \E group_context \in GroupContexts, tree \in {GetTree(outputs)} :
           \E focus \in {IdOf(tree, focused)} :
               \E target \in {NewWorkspaceTarget(tree, focus, group_context)} :
                   \E end \in (IF target.exc # "" THEN {tree}
                               ELSE I3MoveContainer(tree, focus, target.found.name)) :
                       /\ Bounded(end)
                       /\ outputs' = TreeNames(end)
                       /\ focused' = focused
                       /\ last' = NumberCommand("move_to_new_workspace", tree,
                                                focus, group_context,
                                                target.local_number, target,
                                                "move")
                       /\ commands' = commands + 1
                       /\ UNCHANGED <<fn, arg, ret, config, server>>

\* i3-workspace-groups workspace-next and workspace-prev.  Kept as well:
\* the number of these commands run in a row with the same offset, the
\* workspace focused when the row started, the number of workspaces its
\* group had, and whether i3 closed a workspace since.
FocusWorkspaceRelative ==
    /\ commands < MaxGroupCommands
    /\ \E offset_from_current \in {1, -1}, tree \in {GetTree(outputs)} :
           \E focus \in {IdOf(tree, focused)} :
               \E next_workspace \in
                      {_relative_workspace_in_group(tree, focus, offset_from_current)},
                  in_row \in {last.op = "focus_workspace_relative"
                              /\ last.number = offset_from_current} :
                   \E outcome \in I3Workspace(tree, focus, next_workspace.name) :
                       /\ Bounded(outcome.outputs)
                       /\ outputs' = TreeNames(outcome.outputs)
                       /\ focused' = NameOf(outcome.outputs, outcome.focused)
                       /\ last' = [Ran("focus_workspace_relative", tree, focus, "")
                              EXCEPT
                                !.number = offset_from_current,
                                !.group = Some(get_group(Con(focus, NameOf(tree, focus)))),
                                !.name = Some(next_workspace.name),
                                !.exists = TRUE,
                                !.sent = <<Sent("workspace", next_workspace.name)>>,
                                !.closed = ~(Names(tree) \subseteq
                                                 Names(outcome.outputs)),
                                !.run = IF in_row THEN last.run + 1 ELSE 1,
                                !.run_start = IF in_row THEN last.run_start
                                              ELSE NameOf(tree, focus),
                                !.run_len =
                                    IF in_row THEN last.run_len
                                    ELSE Len(GroupGet(
                                             get_group_to_workspaces(workspaces(tree)),
                                             get_group(Con(focus, NameOf(tree, focus))))),
                                !.run_closed =
                                    (in_row /\ last.run_closed)
                                    \/ ~(Names(tree) \subseteq Names(outcome.outputs))]
                       /\ commands' = commands + 1
                       /\ UNCHANGED <<fn, arg, ret, config, server>>

\* i3-workspace-groups move-to-next and move-to-prev
MoveWorkspaceRelative ==
    /\ commands < MaxGroupCommands
    /\ \E offset_from_current \in {1, -1}, tree \in {GetTree(outputs)} :
           \E focus \in {IdOf(tree, focused)} :
               \E next_workspace \in
                      {_relative_workspace_in_group(tree, focus, offset_from_current)} :
                   \E end \in I3MoveContainer(tree, focus, next_workspace.name) :
                       /\ Bounded(end)
                       /\ outputs' = TreeNames(end)
                       /\ focused' = focused
                       /\ last' = [Ran("move_workspace_relative", tree, focus, "")
                              EXCEPT
                                !.number = offset_from_current,
                                !.group = Some(get_group(Con(focus, NameOf(tree, focus)))),
                                !.name = Some(next_workspace.name),
                                !.exists = TRUE,
                                !.sent = <<Sent("move", next_workspace.name)>>]
                       /\ commands' = commands + 1
                       /\ UNCHANGED <<fn, arg, ret, config, server>>

\* update_focused_workspace with the rename command sent before the conflict
\* is looked for
RenameFocused_First(tree, focus, metadata_updates, update) ==
    IF update.exc = ""
    THEN rename_workspace(StartCommand(tree), NameOf(tree, focus),
                          update.val.name)
    ELSE Once({IF name.exc # "" THEN StartCommand(tree)
               ELSE rename_workspace(StartCommand(tree), NameOf(tree, focus),
                                     name.val) :
                  name \in {_create_workspace_name(
                               tree, focus,
                               OverwriteSections(Parsed(NameOf(tree, focus)),
                                                 metadata_updates))}})

\* The last statement of update_focused_workspace, reached when nothing
\* was raised: the rename command of the focused workspace
RenameFocused(tree, focus, metadata_updates, update) ==
    IF update.exc # "" THEN StartCommand(tree)
    ELSE rename_workspace(StartCommand(tree), NameOf(tree, focus),
                          update.val.name)

\* i3-workspace-groups rename-workspace and assign-workspace-to-group
UpdateFocusedWorkspaceOn(updates, max_commands) ==
    /\ commands < max_commands
    /\ \E metadata_updates \in updates, tree \in {GetTree(outputs)} :
           \E focus \in {IdOf(tree, focused)} :
               \E update \in {update_focused_workspace(
                                 tree, focus, metadata_updates,
                                 config.use_next_available_number)} :
                   \E st \in {RenameFocused(tree, focus, metadata_updates,
                                            update)} :
                       /\ Bounded(st.i3)
                       /\ outputs' = TreeNames(st.i3)
                       /\ focused' = NameOf(st.i3, focus)
                       /\ last' = [Ran("update_focused_workspace", tree, focus,
                                       update.exc)
                              EXCEPT
                                !.metadata_updates = metadata_updates,
                                !.metadata = IF update.exc # "" THEN <<>>
                                             ELSE update.val.metadata,
                                !.conflict = update.exc = "" /\ update.val.conflict,
                                !.name = IF update.exc # "" THEN None
                                         ELSE Some(update.val.name),
                                !.sent = AsSeq([i \in 1..Len(st.sent) |->
                                              Sent("rename",
                                                   st.sent[i].new_name)])]
                       /\ commands' = commands + 1
                       /\ UNCHANGED <<fn, arg, ret, config, server>>

\* rename-workspace and assign-workspace-to-group with the arguments of
\* this specification
UpdateFocusedWorkspace == UpdateFocusedWorkspaceOn(MetadataUpdates, MaxGroupCommands)

\* i3-workspace-groups list-workspaces
ListWorkspaces ==
    /\ commands < MaxGroupCommands
    /\ \E group_context \in GroupContexts, focused_only \in BOOLEAN,
          monitor_only \in BOOLEAN, tree \in {GetTree(outputs)} :
           \E focus \in {IdOf(tree, focused)} :
               \E listed \in {list_workspaces(tree, focus, group_context,
                                              focused_only, monitor_only)} :
                   /\ last' = [Ran("list_workspaces", tree, focus, listed.exc)
                                   EXCEPT !.group_context = group_context,
                                          !.focused_only = focused_only,
                                          !.monitor_only = monitor_only,
                                          !.listed = IF listed.exc # "" THEN <<>>
                                                     ELSE [i \in 1..Len(listed.val)
                                                              |-> listed.val[i].name]]
                   /\ commands' = commands + 1
                   /\ UNCHANGED <<fn, arg, ret, config, server, outputs, focused>>

NextCommands ==
    \/ ListWorkspaces
    \/ FocusWorkspaceNumber
    \/ MoveToWorkspaceNumber
    \/ FocusWorkspaceRelative
    \/ MoveWorkspaceRelative
    \/ UpdateFocusedWorkspace

SpecCommands == InitCommands /\ [][NextCommands]_vars

\* The commands that make a new workspace, after the commands that rename
\* the focused workspace
InitNew == InitCommands

NextNew ==
    \/ FocusNewWorkspace
    \/ MoveToNewWorkspace
    \/ UpdateFocusedWorkspace

SpecNew == InitNew /\ [][NextNew]_vars

(***************************************************************************)
(* Properties of the commands on the focused workspace                     *)
(***************************************************************************)
NamesBefore ==
    UNION {{last.before[m][i] : i \in 1..Len(last.before[m])} : m \in Monitors}

NamesNow == UNION {NamesOn(m) : m \in Monitors}

\* The local number get_local_workspace_number reads from a name
LocalOf(name) == get_local_workspace_number(Con(0, name))

Assigned(group) ==
    /\ last.op = "update_focused_workspace"
    /\ last.metadata_updates
           = WorkspaceGroupingMetadata(None, Some(group), None, None, None)

\* The case of C12: the focused workspace was in the default group and
\* group a had a workspace with local number 1
AssignedFromDefault ==
    /\ Assigned(<<"a">>)
    /\ GroupOf(last.focused_before) = <<>>
    /\ \E name \in NamesBefore : GroupOf(name) = <<"a">> /\ LocalOf(name) = Some(1)

AssignedFreeNumber ==
    /\ last.exc = ""
    /\ GroupOf(focused) = <<"a">>
    /\ \A name \in NamesNow \ {focused} :
           GroupOf(name) = <<"a">> => LocalOf(name) # LocalOf(focused)
    /\ {LocalOf(name) : name \in {n \in NamesBefore : GroupOf(n) = <<"a">>}}
           = {Some(1)}
       => Parsed(focused).local_number = Some(2)

\* C12: when the focused workspace, in the default group, is assigned to
\* group a, which has a workspace with local number 1, the command
\* succeeds and the workspace's new name decodes to group a and to a local
\* number no other workspace of a has: 2 when only 1 was in use.
C12_AssignToGroup == AssignedFromDefault => AssignedFreeNumber

\* C12 where the focused workspace's name has a local number and
\* use_next_available_number is set: the command does as C12 says.
C12_NextAvailable ==
    (AssignedFromDefault /\ config.use_next_available_number
     /\ ~IsNone(Parsed(last.focused_before).local_number))
        => AssignedFreeNumber

C12_NextAvailableCase ==
    /\ AssignedFromDefault
    /\ config.use_next_available_number
    /\ Parsed(last.focused_before).local_number = Some(1)
    /\ Parsed(focused).local_number = Some(2)

\* The last command was a number command of this name that found no
\* workspace of its group with the number: none was there when it started
NoneNumbered(op) ==
    /\ Completed(op)
    /\ \A name \in NamesBefore :
           ~(GroupOf(name) = Val(last.group) /\ LocalOf(name) = Some(last.number))

\* The group index get_group_index gives the group on the monitor that was
\* focused when the last command started
GroupIndexBefore(group) ==
    get_group_index(group,
                    get_group_to_workspaces(
                        GetTree(last.before)[last.focused_monitor]))

TargetName == Val(last.name)

\* The last command sent i3 one command, of this kind, and no name changed
OnlySent(command) ==
    /\ Len(last.sent) = 1
    /\ last.sent[1].command = command
    /\ NamesNow \ {TargetName} \subseteq NamesBefore

SynthesizedFor(group, n) ==
    /\ GroupOf(TargetName) = group
    /\ Parsed(TargetName).local_number = Some(n)
    /\ Parsed(TargetName).global_number
           = Some(compute_global_number(get_monitor_index(last.focused_monitor),
                                        GroupIndexBefore(group), n).val)
    /\ \A name \in NamesBefore :
           HasGlobal(name) => GlobalOf(name) # GlobalOf(TargetName)

NumberedBefore ==
    {name \in NamesBefore :
        GroupOf(name) = Val(last.group) /\ LocalOf(name) = Some(last.number)}

ReusedOrSynthesized ==
    IF NumberedBefore # {}
    THEN TargetName \in NumberedBefore /\ NamesNow \subseteq NamesBefore
    ELSE TargetName \notin NamesBefore

\* C14: focus_workspace_number and move_to_workspace_number target the
\* name, as it is, of a workspace of the context's group with local number
\* n when a monitor has one, and no name is made; they make a new name
\* only when no monitor has such a workspace.
C14_ReuseAcrossMonitors ==
    (Completed("focus_workspace_number") \/ Completed("move_to_workspace_number"))
        => ReusedOrSynthesized

\* The monitor a workspace was on when the last command started
MonitorBefore(name) ==
    CHOOSE m \in Monitors : \E i \in 1..Len(last.before[m]) : last.before[m][i] = name

\* focus_workspace_number focused the workspace that another monitor had
C14_Witness ==
    /\ Completed("focus_workspace_number")
    /\ NumberedBefore # {}
    /\ \A name \in NumberedBefore : MonitorBefore(name) # last.focused_monitor
    /\ focused = TargetName

\* The workspaces of a group when the last command started, over all
\* monitors in the order of the tree
GroupBefore(group) ==
    GroupGet(get_group_to_workspaces(workspaces(GetTree(last.before))), group)

IndexBefore(name) ==
    CHOOSE i \in 1..Len(GroupBefore(GroupOf(name))) :
        GroupBefore(GroupOf(name))[i].name = name

Relative(op) == last.op = op

\* The workspace at index (i + d) mod len of the focused workspace's group
CircularTarget ==
    GroupBefore(GroupOf(last.focused_before))[
        ((IndexBefore(last.focused_before) - 1 + last.number)
             % Len(GroupBefore(GroupOf(last.focused_before)))) + 1].name

RelativeTarget ==
    /\ last.exc = ""
    /\ Len(last.sent) = 1
    /\ last.sent[1].name = CircularTarget
    /\ GroupOf(CircularTarget) = GroupOf(last.focused_before)

\* focus_workspace_relative(d) and move_workspace_relative(d), d = +1 or
\* -1, never fail and send one command, for the workspace at index
\* (i + d) mod len of the focused workspace's group over all monitors in
\* tree order, i being the index of the focused workspace.
CircularTargets ==
    (Relative("focus_workspace_relative") \/ Relative("move_workspace_relative"))
        => RelativeTarget

\* C15, as claimed: the relative commands target the workspace at index
\* (i + d) mod len of the focused workspace's group and never fail;
\* focus_workspace_relative(+1) followed by focus_workspace_relative(-1)
\* returns to the starting workspace, and +1 applied len times returns to
\* the starting workspace.
C15_Relative ==
    /\ []CircularTargets
    /\ [][/\ (last.op = "focus_workspace_relative" /\ last.number = 1
            /\ last'.op = "focus_workspace_relative" /\ last'.number = -1)
               => focused' = last.focused_before
          /\ (last'.op = "focus_workspace_relative" /\ last'.number = 1
              /\ last'.run = last'.run_len)
               => focused' = last'.run_start]_vars

\* C15 with the returns limited to runs in which i3 closes no workspace:
\* the relative commands target the workspace at index (i + d) mod len
\* and never fail; when i3 closes no workspace meanwhile, workspace-next
\* followed by workspace-prev returns to the starting workspace, and
\* workspace-next applied len times does.
C15_RelativeUnlessClosed ==
    /\ []CircularTargets
    /\ [][/\ (last.op = "focus_workspace_relative" /\ last.number = 1
            /\ last'.op = "focus_workspace_relative" /\ last'.number = -1
            /\ ~last.closed /\ ~last'.closed)
               => focused' = last.focused_before
          /\ (last'.op = "focus_workspace_relative" /\ last'.number = 1
              /\ last'.run = last'.run_len /\ ~last'.run_closed)
               => focused' = last'.run_start]_vars

\* workspace-next then workspace-prev in a group of three workspaces, and
\* workspace-next twice in a group of two, no workspace closed
C15_Witness ==
    /\ last.op = "focus_workspace_relative"
    /\ ~last.closed
    /\ commands = 2
    /\ \/ last.number = -1 /\ Len(GroupBefore(GroupOf(focused))) = 3
          /\ last.run = 1 /\ IndexBefore(last.focused_before) = 1
       \/ last.number = 1 /\ last.run = 2 /\ last.run_len = 2 /\ ~last.run_closed

\* The group and the local number update_focused_workspace is to give the
\* focused workspace: the ones supplied, else those of its name
UpdateGroup ==
    IF IsNone(last.metadata_updates.group) THEN GroupOf(last.focused_before)
    ELSE Val(last.metadata_updates.group)

UpdateLocal ==
    IF IsNone(last.metadata_updates.local_number)
    THEN Parsed(last.focused_before).local_number
    ELSE last.metadata_updates.local_number

\* Another workspace had this group and local number
HeldByOther ==
    /\ ~IsNone(UpdateLocal)
    /\ \E name \in NamesBefore \ {last.focused_before} :
           GroupOf(name) = UpdateGroup /\ LocalOf(name) = UpdateLocal

NumberConflict ==
    last.exc = "WorkspaceGroupsError: Workspace with local number already exists in group"

LowestUnused(group) ==
    Min({n \in 1..(MaxWorkspaces + 1) :
            \A name \in NamesBefore : GroupOf(name) = group => LocalOf(name) # Some(n)})

\* C16: when another workspace holds the (group, local number) the focused
\* workspace is to get, update_focused_workspace fails with the number
\* conflict if use_next_available_number is false and, if it is true,
\* succeeds and gives the workspace the lowest local number no workspace of
\* the group has; when no other workspace holds the pair it reports no
\* conflict.
C16_NumberConflict ==
    last.op = "update_focused_workspace" =>
        IF HeldByOther
        THEN IF config.use_next_available_number
             THEN /\ last.exc = ""
                  /\ GroupOf(focused) = UpdateGroup
                  /\ Parsed(focused).local_number = Some(LowestUnused(UpdateGroup))
             ELSE NumberConflict
        ELSE ~NumberConflict

\* C16 for a focused workspace that is to get a local number: the
\* conflict is reported, or the lowest free number given, exactly when
\* another workspace holds the pair.
C16_Numbered ==
    (last.op = "update_focused_workspace" /\ ~IsNone(UpdateLocal))
        => C16_NumberConflict

C16_NumberedCase ==
    /\ last.op = "update_focused_workspace"
    /\ HeldByOther
    /\ config.use_next_available_number
    /\ Parsed(focused).local_number = Some(2)

\* A section of a name that may be absent, read as the empty string then
TextOf(section) == IF IsNone(section) THEN <<>> ELSE Val(section)

\* The sections not supplied decode from the new name as from the old one
KeptGroup ==
    IsNone(last.metadata_updates.group)
        => GroupOf(focused) = GroupOf(last.focused_before)

KeptStaticName ==
    IsNone(last.metadata_updates.static_name)
        => TextOf(Parsed(focused).static_name)
               = TextOf(Parsed(last.focused_before).static_name)

KeptLocalNumber ==
    IsNone(last.metadata_updates.local_number)
        => Parsed(focused).local_number
               = Parsed(last.focused_before).local_number

KeptDynamicName ==
    TextOf(Parsed(focused).dynamic_name)
        = TextOf(Parsed(last.focused_before).dynamic_name)

OthersKept == NamesNow \ {focused} = NamesBefore \ {last.focused_before}

\* C17: update_focused_workspace overwrites only the requested fields:
\* each of group, static_name and local_number that is not supplied
\* decodes from the new name as from the old one, the dynamic name is
\* unchanged, and no other workspace is renamed.
C17_OnlyRequested ==
    Completed("update_focused_workspace")
        => KeptGroup /\ KeptStaticName /\ KeptLocalNumber /\ KeptDynamicName
           /\ OthersKept

\* C17 with the local number excepted when use_next_available_number
\* replaces it because another workspace has the pair
C17_UnlessReassigned ==
    Completed("update_focused_workspace")
        => KeptGroup /\ KeptStaticName /\ KeptDynamicName /\ OthersKept
           /\ (~last.conflict => KeptLocalNumber)

\* The focused workspace of the default group, with local number 2, was
\* given the name y and the group a: it kept its number
C17_Witness ==
    /\ Completed("update_focused_workspace")
    /\ last.metadata_updates
           = WorkspaceGroupingMetadata(None, Some(<<"a">>), Some(<<"y">>), None, None)
    /\ Parsed(last.focused_before).local_number = Some(2)
    /\ focused # last.focused_before
    /\ Parsed(focused).static_name = Some(<<"y">>)
    /\ Parsed(focused).local_number = Some(2)

(***************************************************************************)
(* The commands that take a group name or a label the user types, given    *)
(* names with and without the delimiter, on i3 as it starts.               *)
(***************************************************************************)
TypedGroupNames == {<<"a">>, <<"a", SECTIONS_DELIM>>}

TypedLabels == {<<"y", SECTIONS_DELIM>>}

TypedContexts == {Some(NamedGroupContext(group)) : group \in TypedGroupNames}

TypedUpdates ==
    {WorkspaceGroupingMetadata(None, group, static_name, None, None) :
        group \in {None} \cup {Some(g) : g \in TypedGroupNames},
        static_name \in {None} \cup {Some(label) : label \in TypedLabels}}
        \ {WorkspaceGroupingMetadata(None, None, None, None, None)}

\* The behaviours checked run at most this many of these commands
MaxTypedCommands == 3

InitTyped ==
    /\ NoPureFunction
    /\ outputs = AsSeq([m \in Monitors |-> <<IntToStr(m)>>])
    /\ focused \in {IntToStr(m) : m \in Monitors}
    /\ config \in [renumber_workspaces : BOOLEAN,
                   use_next_available_number : BOOLEAN]
    /\ last = Ran("i3", GetTree(outputs), IdOf(GetTree(outputs), focused), "")
    /\ commands = 0
    /\ NoServer

SwitchActiveGroupTyped == SwitchActiveGroupOn(TypedGroupNames, MaxTypedCommands)

FocusWorkspaceNumberTyped ==
    FocusWorkspaceNumberOn(TypedContexts, TargetNumbers, MaxTypedCommands)

UpdateFocusedWorkspaceTyped == UpdateFocusedWorkspaceOn(TypedUpdates, MaxTypedCommands)

NextTyped ==
    \/ SwitchActiveGroupTyped
    \/ FocusWorkspaceNumberTyped
    \/ UpdateFocusedWorkspaceTyped

SpecTyped == InitTyped /\ [][NextTyped]_vars

\* The group name or label typed for the last command has the delimiter
TypedDelimiter ==
    \/ /\ last.op = "switch_active_group"
       /\ ~is_valid_group_name(last.group)
    \/ /\ last.op = "focus_workspace_number"
       /\ ~is_valid_group_name(Val(last.group_context).group_name)
    \/ /\ last.op = "update_focused_workspace"
       /\ \/ ~IsNone(last.metadata_updates.group)
             /\ ~is_valid_group_name(Val(last.metadata_updates.group))
          \/ ~IsNone(last.metadata_updates.static_name)
             /\ ~is_valid_group_name(Val(last.metadata_updates.static_name))

InvalidGroupName == last.exc = "WorkspaceGroupsError: Invalid group name provided"

\* The names i3 gives its workspaces at the start
PlainNames == {IntToStr(m) : m \in Monitors}

FiveSections(name) == Len(Split(name, SECTIONS_DELIM)) = 5

\* C18: switch_active_group, update_focused_workspace and the named group
\* context reject a group name or label that contains the delimiter with
\* the invalid-group-name error, and every workspace name the commands
\* make splits into exactly five sections.
C18_DelimiterRejected ==
    /\ TypedDelimiter => InvalidGroupName
    /\ \A name \in NamesNow \ PlainNames : FiveSections(name)

\* update_focused_workspace rejects a group name with the delimiter, and
\* no name changes
C18_UpdateRejects ==
    (/\ last.op = "update_focused_workspace"
     /\ ~IsNone(last.metadata_updates.group)
     /\ ~is_valid_group_name(Val(last.metadata_updates.group)))
        => InvalidGroupName /\ NamesNow = NamesBefore

C18_UpdateRejectsCase ==
    /\ last.op = "update_focused_workspace"
    /\ last.metadata_updates.group = Some(<<"a", SECTIONS_DELIM>>)
    /\ InvalidGroupName
    /\ commands = 3

(***************************************************************************)
(* Properties of the named group context                                   *)
(***************************************************************************)
ListedNamed ==
    /\ last.op = "list_workspaces"
    /\ ~IsNone(last.group_context)
    /\ Val(last.group_context).kind = "named"

\* The group set list_workspaces considered: the groups of the focused
\* monitor with monitor_only, the groups of all monitors otherwise
ConsideredBefore ==
    get_group_to_workspaces(
        IF last.monitor_only THEN GetTree(last.before)[last.focused_monitor]
        ELSE workspaces(GetTree(last.before)))

\* The names list_workspaces returns for a group of the considered set
NamesOfGroup(group) ==
    LET IsListed(ws) == ~last.focused_only \/ ws.name = last.focused_before
        listed == SelectSeq(GroupGet(ConsideredBefore, group), IsListed)
    IN  [i \in 1..Len(listed) |-> listed[i].name]

UnknownGroup ==
    /\ ListedNamed
    /\ Val(last.group_context).group_name \notin GroupKeys(ConsideredBefore)

\* C19: list-workspaces with a named group context fails with a
\* WorkspaceGroupsError when the name is not a key of the group set it
\* considers, and lists the workspaces of the named group when it is.
C19_UnknownGroup ==
    ListedNamed
        => IF UnknownGroup
           THEN last.exc # ""
           ELSE /\ last.exc = ""
                /\ last.listed = NamesOfGroup(Val(last.group_context).group_name)

\* C19, the half that holds: a name that is a key of the considered group
\* set is resolved unchanged, the command lists that group's workspaces.
C19_KnownGroup ==
    (ListedNamed /\ ~UnknownGroup)
        => /\ last.exc = ""
           /\ last.listed = NamesOfGroup(Val(last.group_context).group_name)
           /\ \A i \in 1..Len(last.listed) :
                  GroupOf(last.listed[i]) = Val(last.group_context).group_name

C19_KnownGroupCase ==
    /\ ListedNamed
    /\ ~UnknownGroup
    /\ ~last.focused_only
    /\ last.listed # <<>>

\* What the code does with a name that is no key: it returns normally
\* with an empty list
C19_UnknownGroupCase ==
    /\ UnknownGroup
    /\ last.exc = ""
    /\ last.listed = <<>>

(***************************************************************************)
(* The server command: serve accepts one connection after the other on a   *)
(* unix socket, reads the arguments of a command from it, runs the command *)
(* and sends its output back.  The bytes a client sends are modelled by    *)
(* their length, whether they decode as UTF-8, and the lines they split    *)
(* into: the words of the command line are strings, the values typed for   *)
(* an option or a positional argument are sequences of characters.         *)
(***************************************************************************)
\* connection.recv(10000)
RecvSize == 10000

\* The length of the commands that are not unusually long
ShortLen == 20

\* The behaviours checked accept at most this many connections
MaxConnections == 3

Bytes(len, utf8, lines) == [len |-> len, utf8 |-> utf8, lines |-> lines]

ClientArgv ==
    {<<"list-workspaces">>,
     <<"list-workspaces", "--group-name", <<"a">>>>,
     <<"rename-workspace", "--number", <<"1">>>>,
     <<"rename-workspace", "--number", <<"2">>>>,
     <<"rename-workspace", "--number", <<"x">>>>,
     <<"assign-workspace-to-group", <<"a">>>>,
     <<"assign-workspace-to-group", <<"a", SECTIONS_DELIM>>>>,
     <<"server">>,
     <<"no-such-command">>}

ClientData ==
    {Bytes(ShortLen, TRUE, argv) : argv \in ClientArgv}
        \cup {Bytes(ShortLen, FALSE, <<>>)}
        \cup {Bytes(len, TRUE, <<"rename-workspace", "--name">>) :
                 len \in {RecvSize, RecvSize + 1}}

\* connection.recv(bufsize): at most bufsize bytes of what the client sent
recv(sent, bufsize) ==
    [sent EXCEPT !.len = IF @ > bufsize THEN bufsize ELSE @]

\* [s.decode('utf-8') for s in data.split(b'\n')]
DecodeLines(data) ==
    IF data.utf8 THEN Ok(data.lines) ELSE Raise("UnicodeError")

\* int(s) of argparse, for the numbers typed without a sign
IsInt(s) == Len(s) > 0 /\ \A i \in 1..Len(s) : s[i] \in DigitSet

\* The namespace parse_args returns, with the defaults of the arguments
Namespace(command) ==
    [command |-> command, group_name |-> None, focused_only |-> FALSE,
     focused_monitor_only |-> FALSE, name |-> None, number |-> None,
     group |-> None]

\* What parse_args raises for arguments it does not accept: argparse
\* raises ArgumentError or exits, and the parser of the tool raises
\* ExitCalledError where argparse would exit
ParseErrors == {"ArgumentError", "ExitCalledError"}

\* parser.parse_args(client_argv), raising error when it fails
parse_args(argv, error) ==
    IF argv = <<"list-workspaces">> THEN Ok(Namespace("list-workspaces"))
    ELSE IF Len(argv) = 3 /\ argv[1] = "list-workspaces"
                /\ argv[2] = "--group-name"
    THEN Ok([Namespace("list-workspaces") EXCEPT !.group_name = Some(argv[3])])
    ELSE IF Len(argv) = 3 /\ argv[1] = "rename-workspace" /\ argv[2] = "--number"
    THEN IF IsInt(argv[3])
         THEN Ok([Namespace("rename-workspace")
                     EXCEPT !.number = Some(StrToNat(argv[3]))])
         ELSE Raise(error)
    ELSE IF Len(argv) = 2 /\ argv[1] = "assign-workspace-to-group"
    THEN Ok([Namespace("assign-workspace-to-group") EXCEPT !.group = Some(argv[2])])
    ELSE IF argv = <<"server">> THEN Ok(Namespace("server"))
    ELSE Raise(error)

\* _create_group_context(args) without --group-active and --group-focused
_create_group_context(args) ==
    IF ~IsNone(args.group_name)
    THEN Some(NamedGroupContext(Val(args.group_name)))
    ELSE None

\* What run_command returns or raises, and i3 after it: [exc, output, i3]
\* with output the rows printed for list-workspaces, one per workspace
run_command(tree, focus, merged_config, args) ==
    IF args.command = "list-workspaces"
    THEN Once({[exc |-> listed.exc,
                output |-> IF listed.exc # "" THEN <<>>
                           ELSE [i \in 1..Len(listed.val) |-> listed.val[i].name],
                i3 |-> tree] :
                  listed \in {list_workspaces(tree, focus,
                                              _create_group_context(args),
                                              args.focused_only,
                                              args.focused_monitor_only)}})
    ELSE Once({[exc |-> update.exc,
                output |-> <<>>,
                i3 |-> IF update.exc # "" THEN tree
                       ELSE rename_workspace(StartCommand(tree),
                                             NameOf(tree, focus),
                                             update.val.name).i3] :
                  update \in {update_focused_workspace(
                                 tree, focus,
                                 WorkspaceGroupingMetadata(None, args.group,
                                                           args.name, None,
                                                           args.number),
                                 merged_config.use_next_available_number)}})

\* connection.sendall(...): the message, and whether it is an "error: " line
Reply(error, text) == [error |-> error, text |-> text]

\* One iteration of the loop of serve: the reply sent if there is one,
\* whether the connection was closed, and the exception that leaves the
\* loop if there is one
Served(i3, reply, closed, exc) ==
    [i3 |-> i3, reply |-> reply, closed |-> closed, exc |-> exc]

ServeConnection(tree, focus, merged_config, data, error) ==
    IF data.len = RecvSize THEN Served(tree, None, FALSE, "")
    ELSE IF DecodeLines(data).exc # "" THEN Served(tree, None, FALSE, "")
    ELSE Once({IF client_args.exc = "ArgumentError"
               THEN Served(tree, Some(Reply(TRUE, "failed parsing command")),
                           TRUE, "")
               ELSE IF client_args.exc = "ExitCalledError"
               THEN Served(tree, Some(Reply(TRUE, "ExitCalledError.message")),
                           TRUE, "")
               ELSE IF client_args.val.command = "server"
               THEN Served(tree, None, TRUE, "")
               ELSE Once({IF ran.exc # ""
                          THEN Served(ran.i3, None, TRUE, ran.exc)
                          ELSE Served(ran.i3, Some(Reply(FALSE, ran.output)),
                                      TRUE, "") :
                             ran \in {run_command(tree, focus, merged_config,
                                                  client_args.val)}}) :
                 client_args \in {parse_args(DecodeLines(data).val, error)}})

\* serve was called and is in its loop, or an exception left it and main
\* ended the process with sys.exit(str(e))
Serving == [running |-> TRUE, exit |-> ""]
Exited(exc) == [running |-> FALSE, exit |-> exc]

\* What the last iteration of the loop did
Connection(op, tree, focus, sent, served) ==
    [op |-> op, before |-> TreeNames(tree),
     focused_before |-> NameOf(tree, focus),
     data |-> sent, reply |-> served.reply, closed |-> served.closed,
     exc |-> served.exc]

InitServe ==
    /\ NoPureFunction
    /\ outputs \in StartOutputs
    /\ focused \in UNION {{outputs[m][i] : i \in 1..Len(outputs[m])} :
                             m \in Monitors}
    /\ config \in [use_next_available_number : BOOLEAN]
    /\ last = Connection("listen", GetTree(outputs),
                         IdOf(GetTree(outputs), focused),
                         Bytes(0, TRUE, <<>>),
                         Served(GetTree(outputs), None, FALSE, ""))
    /\ commands = 0
    /\ server = Serving

\* One iteration of the loop of serve, from sock.accept() to the next
Serve ==
    /\ server.running
    /\ commands < MaxConnections
    /\ \E sent \in ClientData, error \in ParseErrors,
          tree \in {GetTree(outputs)} :
           \E focus \in {IdOf(tree, focused)} :
               \E served \in {ServeConnection(tree, focus, config,
                                              recv(sent, RecvSize), error)} :
                   /\ Bounded(served.i3)
                   /\ outputs' = TreeNames(served.i3)
                   /\ focused' = NameOf(served.i3, focus)
                   /\ last' = Connection("serve", tree, focus, sent, served)
                   /\ server' = IF served.exc # "" THEN Exited(served.exc)
                                ELSE Serving
                   /\ commands' = commands + 1
                   /\ UNCHANGED <<fn, arg, ret, config>>

NextServe == Serve

SpecServe == InitServe /\ [][NextServe]_vars

(***************************************************************************)
(* Properties of the server command                                        *)
(***************************************************************************)
Accepted == last.op = "serve"

Oversized == last.data.len >= RecvSize

Undecodable == ~last.data.utf8

\* The client's lines are arguments the parser accepts
Parsable ==
    /\ ~Oversized
    /\ ~Undecodable
    /\ parse_args(last.data.lines, "ExitCalledError").exc = ""

NestedServer ==
    Parsable /\ parse_args(last.data.lines, "ExitCalledError").val.command = "server"

\* The connection carried the arguments of a command, accepted by the
\* parser or not
CarriedCommand == Accepted /\ ~Oversized /\ ~Undecodable /\ ~NestedServer

\* C20: after every accepted connection the accept loop is still running,
\* whatever the client sent, and a connection that carried a command got a
\* reply: the result of the command or an "error: " line.
C20_ServeGoesOn ==
    Accepted
        => /\ server.running
           /\ CarriedCommand => ~IsNone(last.reply)

\* C20, the part that holds: input that is too long, is not UTF-8, is not
\* accepted by the parser or is a nested server command leaves the loop
\* running and i3 as it was, and arguments the parser does not accept are
\* answered with an "error: " line.
C20_RejectedGoesOn ==
    (Accepted /\ (~Parsable \/ NestedServer))
        => /\ server.running
           /\ outputs = last.before
           /\ focused = last.focused_before
           /\ (~Oversized /\ ~Undecodable /\ ~Parsable)
                  => /\ ~IsNone(last.reply)
                     /\ Val(last.reply).error
                     /\ last.closed

C20_RejectedCase ==
    /\ Accepted
    /\ ~Oversized /\ ~Undecodable /\ ~Parsable
    /\ server.running
    /\ Val(last.reply).error

\* C20, the part that holds: a command that returns is answered with its
\* output, the connection is closed and the loop goes on; the loop ends
\* only when the command raised an exception.
C20_ReturnedGoesOn ==
    (CarriedCommand /\ Parsable)
        => IF last.exc = ""
           THEN /\ server.running
                /\ ~IsNone(last.reply)
                /\ ~Val(last.reply).error
                /\ last.closed
           ELSE /\ server = Exited(last.exc)
                /\ IsNone(last.reply)
                /\ last.closed

C20_ReturnedCase ==
    /\ CarriedCommand /\ Parsable
    /\ server.running
    /\ Val(last.reply).text # <<>>

\* What the code does with a command that raises WorkspaceGroupsError: the
\* exception leaves serve and main ends the process
C20_ExitedCase ==
    /\ CarriedCommand /\ Parsable
    /\ server = Exited("WorkspaceGroupsError: Workspace with local number already exists in group")
    /\ IsNone(last.reply)

(***************************************************************************)
(* The commands that take a workspace number, given the numbers from 0 to  *)
(* MaxLocal and numbers from 100 on: the parser reads                      *)
(* workspace_relative_number and --number with type=int.                   *)
(***************************************************************************)
AnyNumbers == (0..MaxLocal) \cup {MAX_WORKSPACES_PER_GROUP, MAX_WORKSPACES_PER_GROUP + 1}

AnyNumberUpdates ==
    {WorkspaceGroupingMetadata(None, group, None, None, Some(n)) :
        group \in {None, Some(<<"a">>)}, n \in AnyNumbers}

\* The behaviours checked run at most this many of these commands
MaxAnyCommands == 2

InitAnyNumber == InitCommands

FocusWorkspaceNumberAny ==
    FocusWorkspaceNumberOn(GroupContexts, AnyNumbers, MaxAnyCommands)

UpdateFocusedWorkspaceAny ==
    UpdateFocusedWorkspaceOn(AnyNumberUpdates, MaxAnyCommands)

NextAnyNumber ==
    \/ FocusWorkspaceNumberAny
    \/ UpdateFocusedWorkspaceAny

SpecAnyNumber == InitAnyNumber /\ [][NextAnyNumber]_vars

\* The errors main reports as the failure of a command
CommandFailures ==
    {"WorkspaceGroupsError: Invalid group name provided",
     "WorkspaceGroupsError: Workspace with local number already exists in group"}

RanNumber ==
    \/ last.op = "focus_workspace_number"
    \/ /\ last.op = "update_focused_workspace"
       /\ ~IsNone(last.metadata_updates.local_number)

NumberGiven ==
    IF last.op = "focus_workspace_number" THEN last.number
    ELSE Val(last.metadata_updates.local_number)

\* C21: whatever integer is given as the workspace number, a command
\* returns or fails with one of the errors of the tool; it never ends with
\* an assertion failure or another exception.
C21_OnlyCommandFailures ==
    RanNumber => last.exc \in {""} \cup CommandFailures

\* C21, the part that holds: with a number from 0 to MaxLocal the command
\* returns or fails with an error of the tool.
C21_BelowLimit ==
    (RanNumber /\ NumberGiven \in 0..MaxLocal)
        => last.exc \in {""} \cup CommandFailures

C21_BelowLimitCase ==
    /\ RanNumber
    /\ NumberGiven = 0
    /\ last.exc = ""

\* What the code does with a number from 100 on that no workspace of the
\* group has: the assertion of compute_global_number fails
C21_AssertionCase ==
    /\ RanNumber
    /\ NumberGiven >= MAX_WORKSPACES_PER_GROUP
    /\ last.exc = "AssertionError"

(***************************************************************************)
(* Properties of the commands that make a new workspace                    *)
(***************************************************************************)
RanNew == last.op \in {"focus_new_workspace", "move_to_new_workspace"}

\* The local numbers the workspaces of a group had when the last command
\* started, on all monitors, as get_local_workspace_number reads them
NumbersBefore(group) ==
    {Val(LocalOf(GroupBefore(group)[i].name)) :
        i \in {j \in 1..Len(GroupBefore(group)) :
                  ~IsNone(LocalOf(GroupBefore(group)[j].name))}}

LowestFree(used) == CHOOSE n \in 1..(Cardinality(used) + 1) :
                        /\ n \notin used
                        /\ \A k \in 1..(n - 1) : k \in used

\* C22: workspace-new and move-to-new target a name that no workspace had,
\* in the group of the context, with the lowest local number that no
\* workspace of the group has on any monitor.
C22_NewWorkspace ==
    (RanNew /\ last.exc = "")
        => /\ Val(last.name) \notin NamesBefore
           /\ ~last.exists
           /\ GroupOf(Val(last.name)) = Val(last.group)
           /\ LocalOf(Val(last.name))
                  = Some(LowestFree(NumbersBefore(Val(last.group)) \ {0}))

\* C22, the part that holds: when every workspace of the group carries its
\* local number in its name, the target is a new name with the lowest
\* local number free in the group.
AllNumbered(group) ==
    \A i \in 1..Len(GroupBefore(group)) :
        Parsed(GroupBefore(group)[i].name).local_number
            = LocalOf(GroupBefore(group)[i].name)

C22_NewWhenNumbered ==
    (RanNew /\ last.exc = "" /\ AllNumbered(Val(last.group)))
        => /\ Val(last.name) \notin NamesBefore
           /\ ~last.exists
           /\ GroupOf(Val(last.name)) = Val(last.group)
           /\ LocalOf(Val(last.name))
                  = Some(LowestFree(NumbersBefore(Val(last.group)) \ {0}))

C22_NewWhenNumberedCase ==
    /\ RanNew /\ last.exc = ""
    /\ AllNumbered(Val(last.group))
    /\ NumbersBefore(Val(last.group)) # {}
    /\ LocalOf(Val(last.name)) = Some(2)

\* What the code does when a workspace of the group has its local number
\* only in its global number: the command targets that workspace
C22_ExistingCase ==
    /\ RanNew /\ last.exc = ""
    /\ last.exists
    /\ Val(last.name) \in NamesBefore

(***************************************************************************)
(* Properties of the rename commands                                       *)
(***************************************************************************)
\* C23: every rename command sent names a new name that differs from the
\* name the workspace has; a workspace whose recomputed name is its name
\* gets no rename command.
C23_RenameOnlyIfDiffers ==
    \A i \in 1..Len(last.renames) :
        last.renames[i].old_name # last.renames[i].new_name

\* An organize pass over workspaces that all have their names already sends
\* nothing, and one that has to rename a workspace sends a rename
C23_Witness ==
    /\ last.op = "update_workspace_names"
    /\ last.exc = ""
    /\ last.passes # <<>>
    /\ last.renames = <<>>
    /\ outputs = last.before
    /\ \E m \in Monitors : Len(outputs[m]) > 1

C23_RenamedCase ==
    /\ last.op = "update_workspace_names"
    /\ Len(last.renames) = 1
    /\ Len(last.before[last.focused_monitor]) > 1

(***************************************************************************)
(* Properties of the cached tree                                           *)
(***************************************************************************)
\* switch_active_group sent a rename command and went on to its last
\* step, which reads the focused workspace and the workspaces of the
\* focused monitor from get_tree()
ReadAfterRename ==
    /\ last.op = "switch_active_group"
    /\ last.exc = ""
    /\ last.renames # <<>>

SetsOf(names) == [m \in Monitors |-> {names[m][i] : i \in 1..Len(names[m])}]

\* C25: the tree a command reads after it sent a rename command is the
\* tree of i3 after that rename, fetched again, not the tree cached before.
C25_RefetchedAfterRename == ReadAfterRename => last.snapshot = last.i3

\* C25, the part that holds: when i3 accepted the renames, the cached tree
\* read after them has on every monitor the names i3 has, because the
\* organizer writes each new name into the cached workspace.
C25_NamesWritten ==
    (ReadAfterRename /\ ~last.refused)
        => SetsOf(last.snapshot) = SetsOf(last.i3)

\* The cached tree has the new names, in the order of before the renames
C25_NamesWrittenCase ==
    /\ ReadAfterRename
    /\ ~last.refused
    /\ SetsOf(last.snapshot) = SetsOf(last.i3)
    /\ last.snapshot # last.i3

(***************************************************************************)
(* Specification of get_group_index: Init draws the group asked for and    *)
(* the names of the workspaces of a monitor, the action applies it.        *)
(***************************************************************************)
MaxGroupIndex == 2
MaxIndexedWorkspaces == 3

\* Names of workspaces of the first monitor: plain names, and names of the
\* tool with a group index from 0 to MaxGroupIndex
IndexedNames ==
    LegacyNames
        \cup {OrganizedName(0, gi, g, <<>>, ln) :
                 gi \in 0..MaxGroupIndex, g \in GroupNames, ln \in 1..MaxLocal}

\* The groups asked for: those of the names, and one that no name has
IndexedGroups == GroupNames \cup {<<"b">>}

GroupIndexInputs ==
    {[target_group |-> g, names |-> names] :
        g \in IndexedGroups,
        names \in {ns \in Seqs(IndexedNames, MaxIndexedWorkspaces) :
                      \A i, j \in 1..Len(ns) : ns[i] = ns[j] => i = j}}

InitGroupIndex ==
    /\ fn = "get_group_index"
    /\ arg \in GroupIndexInputs
    /\ ret = Pending
    /\ NoController

GetGroupIndex ==
    /\ fn = "get_group_index" /\ ret = Pending
    /\ ret' = Ok(get_group_index(
                     arg.target_group,
                     get_group_to_workspaces(
                         [i \in 1..Len(arg.names) |-> Con(i, arg.names[i])])))
    /\ UNCHANGED <<fn, arg, outputs, focused, config, last, commands,
                 server>>

NextGroupIndex == GetGroupIndex

SpecGroupIndex == InitGroupIndex /\ [][NextGroupIndex]_vars

\* The positions of the workspaces of a group whose name decodes to a
\* global number, in the order of the monitor
NumberedOf(group) ==
    {i \in 1..Len(arg.names) :
        /\ Val(Parsed(arg.names[i]).group) = group
        /\ ~IsNone(Parsed(arg.names[i]).global_number)}

GroupsWithIndex ==
    {Val(Parsed(arg.names[i]).group) :
        i \in {j \in 1..Len(arg.names) :
                  ~IsNone(Parsed(arg.names[j]).global_number)}}

\* The group index in the global number of the first such workspace
EncodedIndex(group) ==
    (Val(Parsed(arg.names[Min(NumberedOf(group))]).global_number)
         % (MAX_GROUPS_PER_MONITOR * MAX_WORKSPACES_PER_GROUP))
        \div MAX_WORKSPACES_PER_GROUP

C26_ClosedBeforeAccept == Accepted => last.closed

\* C26, the part that holds: a connection whose data is shorter than the
\* buffer and decodes as UTF-8 is closed on every path, with or without a
\* reply, also when the command raises.
C26_ClosedWhenDecoded ==
    (Accepted /\ ~Oversized /\ ~Undecodable) => last.closed

C26_NestedServerCase ==
    /\ Accepted /\ NestedServer
    /\ IsNone(last.reply)
    /\ last.closed
    /\ server.running

\* What the code does with data that fills the buffer: the loop accepts
\* again and connection.close() was not called
C26_OversizedCase ==
    /\ Accepted /\ Oversized
    /\ ~last.closed
    /\ server.running
    /\ commands < MaxConnections

(***************************************************************************)
(* A second organize pass                                                  *)
(***************************************************************************)
\* The groups of a pass of the last command in their order, with the
\* workspaces the monitor has now
GroupsOfPass(tree, p) ==
    AsSeq([k \in 1..Len(last.passes[p].groups) |->
        [group |-> last.passes[p].groups[k],
         workspaces |-> GroupGet(get_group_to_workspaces(
                                     tree[last.passes[p].monitor]),
                                 last.passes[p].groups[k])]])

\* organize_workspace_groups run again from the names i3 has now, over the
\* groups of pass p in the same order
SecondPass(p) ==
    Once({organize_workspace_groups(StartCommand(tree), GroupsOfPass(tree, p),
                                    last.passes[p].monitor,
                                    config.renumber_workspaces) :
             tree \in {GetTree(outputs)}})

\* The last command ran organize passes to the end and nothing changed
\* since its renames
Organized ==
    /\ last.op \in {"update_workspace_names", "switch_active_group"}
    /\ last.exc = ""
    /\ last.passes # <<>>
    /\ outputs = last.i3

\* C27: after an organize pass, a second pass over the same groups in the
\* same order sends no rename command and leaves every name as it is.
C27_Idempotent ==
    Organized
        => \A p \in 1..Len(last.passes) :
               /\ SecondPass(p).sent = <<>>
               /\ TreeNames(SecondPass(p).i3) = outputs

\* C27, the part that holds: when i3 accepted every rename of the first
\* pass, the second pass sends no rename command.
C27_IdempotentIfAccepted ==
    (Organized /\ ~last.refused)
        => \A p \in 1..Len(last.passes) :
               /\ SecondPass(p).sent = <<>>
               /\ SecondPass(p).exc = ""

\* A first pass that renamed two workspaces, followed by a second that
\* sends nothing
C27_IdempotentCase ==
    /\ Organized /\ ~last.refused
    /\ Len(last.passes) = 1
    /\ Len(last.renames) >= 2
    /\ SecondPass(1).sent = <<>>

\* What the code does after a refused rename: the second pass sends the
\* same rename again
C27_RepeatedCase ==
    /\ Organized /\ last.refused
    /\ Len(last.passes) = 1
    /\ SecondPass(1).sent # <<>>

(***************************************************************************)
(* The autonamer started on names the user has given: i3 takes any string  *)
(* as the name of a workspace, also one in the format of the tool with the *)
(* local number 0, which the tool itself never writes.                     *)
(***************************************************************************)
MaxGivenLocal == 1

\* A name in the format of the tool with every section written out
WrittenName(global_number, group, static_name, local_number) ==
    IntToStr(global_number) \o <<":", SECTIONS_DELIM>> \o group
        \o <<SECTIONS_DELIM>> \o static_name
        \o <<SECTIONS_DELIM, SECTIONS_DELIM, ":">> \o IntToStr(local_number)

GivenNames ==
    LegacyNames
        \cup {IntToStr(m) : m \in Monitors}
        \cup {WrittenName(ln, g, <<"x">>, ln) :
                 g \in GroupNames, ln \in 0..MaxGivenLocal}

GivenOutputs ==
    {names \in [Monitors -> Seqs(GivenNames, 2)] :
        /\ \A m \in Monitors : names[m] # <<>>
        /\ Len(names[NumMonitors]) = 1
        /\ \A m, n \in Monitors :
               \A i \in 1..Len(names[m]), j \in 1..Len(names[n]) :
                   names[m][i] = names[n][j] => (m = n /\ i = j)}

InitOrganize ==
    /\ NoPureFunction
    /\ outputs \in {AsSeq(names) : names \in GivenOutputs}
    /\ focused \in {outputs[1][i] : i \in 1..Len(outputs[1])}
    /\ config \in [renumber_workspaces : BOOLEAN]
    /\ last = I3Command(GetTree(outputs), IdOf(GetTree(outputs), focused))
    /\ commands = 0
    /\ NoServer

NextOrganize == UpdateWorkspaceNames

SpecOrganize == InitOrganize /\ [][NextOrganize]_vars

\* A workspace had the local number 0 written in its name when the last
\* command started
HadLocalZero ==
    \E m \in Monitors : \E i \in 1..Len(last.before[m]) :
        Parsed(last.before[m][i]).local_number = Some(0)

\* C27 for the names a user can give: when i3 accepted every rename of a
\* pass, a second pass sends no rename command.
C27_IdempotentOnGivenNames ==
    (Organized /\ ~last.refused) => SecondPass(1).sent = <<>>

\* C27, the part that holds on these names: with no local number 0 written
\* in a name and every rename accepted, a second pass sends no rename
\* command.
C27_IdempotentUnlessZero ==
    (Organized /\ ~last.refused /\ ~HadLocalZero) => SecondPass(1).sent = <<>>

C27_AbsentCase ==
    /\ Organized /\ ~last.refused /\ ~HadLocalZero
    /\ ~config.renumber_workspaces
    /\ \E i \in 1..Len(last.before[1]) : last.before[1][i] \in LegacyNames
    /\ Len(last.renames) = 2
    /\ SecondPass(1).sent = <<>>

\* What the code does with a local number 0: the first pass keeps it and
\* create_name leaves it out, the second pass assigns a new one
C27_ZeroCase ==
    /\ Organized /\ ~last.refused /\ HadLocalZero
    /\ ~config.renumber_workspaces
    /\ Len(SecondPass(1).sent) = 1

(***************************************************************************)
(* The range of the numbers compute_local_numbers returns                  *)
(***************************************************************************)
Returned ==
    fn = "compute_local_numbers" /\ ret # Pending /\ ret.exc = ""

\* C28: every local number compute_local_numbers returns lies in 1..99, so
\* compute_global_number accepts it.
C28_LocalNumbersInRange ==
    Returned
        => \A i \in 1..Len(ret.val) :
               /\ ret.val[i] \in 1..(MAX_WORKSPACES_PER_GROUP - 1)
               /\ compute_global_number(0, 0, ret.val[i]).exc = ""

\* C28, the part that holds: the numbers returned in renumber mode lie in
\* 1..99, and so do those of preserve mode when the numbers used on other
\* monitors leave room above them for the workspaces of the monitor.
C28_InRangeWithRoom ==
    (Returned
        /\ (arg.renumber_workspaces
               \/ Max({0} \cup UsedElsewhere) + Len(arg.monitor_workspaces)
                      < MAX_WORKSPACES_PER_GROUP))
        => \A i \in 1..Len(ret.val) :
               /\ ret.val[i] \in 1..(MAX_WORKSPACES_PER_GROUP - 1)
               /\ compute_global_number(0, 0, ret.val[i]).exc = ""

C28_WithRoomCase ==
    /\ Returned /\ ~arg.renumber_workspaces
    /\ UsedElsewhere = 1..(MAX_WORKSPACES_PER_GROUP - 2)
    /\ ret.val = <<MAX_WORKSPACES_PER_GROUP - 1>>

\* What the code does in preserve mode when another monitor uses 99
C28_OverflowCase ==
    /\ Returned /\ ~arg.renumber_workspaces
    /\ UsedElsewhere = {MAX_WORKSPACES_PER_GROUP - 1}
    /\ ret.val = <<MAX_WORKSPACES_PER_GROUP>>
    /\ compute_global_number(0, 0, ret.val[1]).exc = "AssertionError"

(***************************************************************************)
(* Rename commands and the names in use                                    *)
(***************************************************************************)
\* The names of the workspaces of i3 are pairwise distinct
DistinctNames ==
    \A m, n \in Monitors :
        \A i \in 1..Len(outputs[m]), j \in 1..Len(outputs[n]) :
            outputs[m][i] = outputs[n][j] => (m = n /\ i = j)

\* No rename command of the last command named a target that a workspace
\* had when the command was sent
NoCollision ==
    \A i \in 1..Len(last.renames) :
        last.renames[i].new_name \notin last.renames[i].names

\* C29: every rename command sent has a target name that no workspace has
\* at that moment; the names stay pairwise distinct and i3 refuses no
\* rename.
C29_NoRenameCollision ==
    /\ NoCollision
    /\ ~last.refused
    /\ DistinctNames

\* C29, the part that holds: in renumber mode no rename command of an
\* organize pass names a target in use, and in both modes the names of i3
\* stay pairwise distinct.
C29_RenumberNoCollision ==
    /\ DistinctNames
    /\ config.renumber_workspaces => (NoCollision /\ ~last.refused)

C29_RenumberCase ==
    /\ config.renumber_workspaces
    /\ last.op = "switch_active_group"
    /\ Len(last.renames) >= 3
    /\ NoCollision

\* What the code does in preserve mode: a rename to the name another
\* workspace was given by the same pass
C29_CollisionCase ==
    /\ ~config.renumber_workspaces
    /\ last.refused
    /\ \E i \in 1..Len(last.renames) :
           /\ last.renames[i].new_name \in last.renames[i].names
           /\ \E j \in 1..(i - 1) :
                  last.renames[j].new_name = last.renames[i].new_name

\* C29, the part that holds for update_focused_workspace: the name it
\* renames the focused workspace to is the name of no workspace.
C29_UpdateNoCollision ==
    (last.op = "update_focused_workspace" /\ last.sent # <<>>)
        => \A m \in Monitors : \A i \in 1..Len(last.before[m]) :
               last.before[m][i] # Val(last.name)

C29_UpdateCase ==
    /\ last.op = "update_focused_workspace" /\ last.sent # <<>>
    /\ Val(last.name) \in UNION {{outputs[m][i] : i \in 1..Len(outputs[m])} :
                                    m \in Monitors}
    /\ \E m \in Monitors : Len(last.before[m]) > 1

(***************************************************************************)
(* update_focused_workspace that fails                                     *)
(***************************************************************************)
FailedUpdate == last.op = "update_focused_workspace" /\ last.exc # ""

\* C30: when update_focused_workspace fails, no command was sent to i3:
\* every workspace name and the focus are as before the call.
C30_FailedUpdateSendsNothing ==
    FailedUpdate
        => /\ last.sent = <<>>
           /\ outputs = last.before
           /\ focused = last.focused_before

\* rename-workspace or assign-workspace-to-group on a monitor with two
\* workspaces fails with the number conflict
C30_Witness ==
    /\ FailedUpdate
    /\ last.exc = "WorkspaceGroupsError: Workspace with local number already exists in group"
    /\ ~config.use_next_available_number
    /\ Len(outputs[last.focused_monitor]) > 1
    /\ last.sent = <<>>

C30_InvalidGroupCase ==
    /\ FailedUpdate
    /\ last.exc = "WorkspaceGroupsError: Invalid group name provided"
    /\ commands > 1
    /\ outputs = last.before

\* The same command when it does not fail: one rename command
C30_RenamedCase ==
    /\ last.op = "update_focused_workspace" /\ last.exc = ""
    /\ Len(last.sent) = 1
    /\ outputs # last.before

====
